---- MODULE Spec2Model ----
(***************************************************************************)
(* A model of rubedo: the in-memory backend (memory_backend.py), the       *)
(* automatic back-reference maintenance of ModelBase (model_base.py), the  *)
(* Group hierarchy and its recursive search (group.py) and the SQLAlchemy  *)
(* unit of work (sqlsorcery/sqlalchemy_repository.py).                     *)
(*                                                                         *)
(* The model classes are those of tests/test_groups.py:                    *)
(*   House{address: str}                                                   *)
(*   Shelf{content: List[str], length: float}                              *)
(*   Kitchen{house: House, shelves: List[Shelf]}                           *)
(*   Den{house: House}                  (its books: List[Book] left out)   *)
(* compiled with backend=MemoryBackend.                                    *)
(***************************************************************************)
EXTENDS Integers, Sequences, FiniteSets, TLC

VARIABLES
    exists,     \* the model instances constructed so far
    fld,        \* instance -> its dataclass fields (the _raw_<name> values)
    attrs,      \* instance -> back-reference attributes stored in __dict__
    pk,         \* instance -> its pk attribute (None until add assigns it)
    items,      \* model -> MemoryRepositoryBase._items of its repository class
    removed,    \* history: the instances a remove() call took out of _items
    last,       \* the outcome of the last call (for the claims to inspect)
    sess,       \* the SQLAlchemy session and the unit of work running on it
                \* (in SpecInterleave: each caller's position inside add)
    cur,        \* the view (or the group and its view) the caller holds
    reg         \* the registrations of the group classes (_SUBGROUPS, _SUPER_GROUP)

ivars == <<exists, fld, attrs, pk, items, removed, last, cur, reg>>
vars == <<exists, fld, attrs, pk, items, removed, last, sess, cur, reg>>

(***************************************************************************)
(* Bounds.                                                                 *)
(***************************************************************************)
MaxInst == 3        \* instances per model class


Models == {"House", "Kitchen", "Shelf", "Den"}
Inst(m) == {<<m, i>> : i \in 1..MaxInst}
Instances == UNION {Inst(m) : m \in Models}
ModelOf(o) == o[1]

\* Python's None where an instance is expected, and where a pk is expected.
NoneRef == <<"None", 0>>
NoPk == -1

\* Characters are 1 and 2; a str is a sequence of characters.
Words == {<<1>>, <<1, 2>>}

\* the element of a one-element set: The({e(x) : x \in {v}}) is e of the
\* value of v, with v evaluated once
The(S) == CHOOSE r \in S : TRUE

(***************************************************************************)
(* The model classes and what rubedo_model._wrap derives from them.        *)
(***************************************************************************)
\* dataclasses.fields(model_cls), in declaration order
Fields(m) ==
    CASE m = "House" -> <<"address">>
      [] m = "Shelf" -> <<"content", "length">>
      [] m = "Kitchen" -> <<"house", "shelves">>
      [] m = "Den" -> <<"house">>

IsField(m, name) == \E i \in 1..Len(Fields(m)) : Fields(m)[i] = name

\* the declared type of a field: List[of] or of
FieldType(m, f) ==
    CASE m = "House" /\ f = "address" -> [list |-> FALSE, of |-> "str"]
      [] m = "Shelf" /\ f = "content" -> [list |-> TRUE, of |-> "str"]
      [] m = "Shelf" /\ f = "length" -> [list |-> FALSE, of |-> "float"]
      [] m = "Kitchen" /\ f = "house" -> [list |-> FALSE, of |-> "House"]
      [] m = "Kitchen" /\ f = "shelves" -> [list |-> TRUE, of |-> "Shelf"]
      [] m = "Den" /\ f = "house" -> [list |-> FALSE, of |-> "House"]

PLURAL_NAME(m) ==
    CASE m = "House" -> "houses" [] m = "Shelf" -> "shelves"
      [] m = "Kitchen" -> "kitchens" [] m = "Den" -> "dens"

SINGULAR_NAME(m) ==
    CASE m = "House" -> "house" [] m = "Shelf" -> "shelf"
      [] m = "Kitchen" -> "kitchen" [] m = "Den" -> "den"

\* EnhancedFieldBase.parse: the relation inferred from the declared type
relation(m, f) ==
    IF FieldType(m, f).list THEN "ONE_TO_MANY"
    ELSE IF FieldType(m, f).of \in Models THEN "MANY_TO_ONE"
    ELSE "NONE"

unwrapped_type(m, f) == FieldType(m, f).of

ModelFields == {p \in {<<m, f>> : m \in Models,
                         f \in {"address", "content", "length", "house", "shelves"}} :
                    IsField(p[1], p[2])}

\* __backrefmodels__ of m, as pairs <<attribute of m, name in the related model>>:
\* m's own MANY_TO_ONE fields, and the singular name of every model that has a
\* ONE_TO_MANY field of m's
BACKREF(m) ==
    {<<p[2], PLURAL_NAME(m)>> : p \in {q \in ModelFields :
        q[1] = m /\ relation(m, q[2]) = "MANY_TO_ONE"}}
    \cup
    {<<SINGULAR_NAME(p[1]), p[2]>> : p \in {q \in ModelFields :
        relation(q[1], q[2]) = "ONE_TO_MANY" /\ unwrapped_type(q[1], q[2]) = m}}

\* __backrefmodels_uselist__ of m: m's own ONE_TO_MANY fields of models, and the
\* plural name of every model that has a MANY_TO_ONE field to m
BACKREF_USELIST(m) ==
    {<<p[2], SINGULAR_NAME(m)>> : p \in {q \in ModelFields :
        q[1] = m /\ relation(m, q[2]) = "ONE_TO_MANY"
              /\ unwrapped_type(m, q[2]) \in Models}}
    \cup
    {<<PLURAL_NAME(p[1]), p[2]>> : p \in {q \in ModelFields :
        relation(q[1], q[2]) = "MANY_TO_ONE" /\ unwrapped_type(q[1], q[2]) = m}}

InMap(pairs, key) == \E p \in pairs : p[1] = key
MapGet(pairs, key) == (CHOOSE p \in pairs : p[1] = key)[2]

\* BackendBase.use_autosetattr, which MemoryBackend inherits
AUTO_SETATTR == TRUE

(***************************************************************************)
(* Instances.  ist = [fld, attrs]: fld[o] holds the dataclass fields of o  *)
(* and attrs[o] the back-reference attributes of its __dict__ (set tells   *)
(* whether the attribute is there; an absent one holds its default).       *)
(***************************************************************************)
NoFields == [address |-> <<>>, content |-> <<>>, length |-> 0,
             house |-> NoneRef, shelves |-> <<>>]

NoAttrs == [kitchens |-> [set |-> FALSE, val |-> <<>>],
            dens |-> [set |-> FALSE, val |-> <<>>],
            kitchen |-> [set |-> FALSE, val |-> NoneRef]]

ReadVal(ist, o, name) ==
    IF IsField(ModelOf(o), name) THEN ist.fld[o][name] ELSE ist.attrs[o][name].val

\* object.__setattr__: store the value
Store(ist, o, name, value) ==
    IF IsField(ModelOf(o), name)
    THEN [ist EXCEPT !.fld[o][name] = value]
    ELSE [ist EXCEPT !.attrs[o][name] = [set |-> TRUE, val |-> value]]

\* ModelBase.__getattr__: reading an absent back-reference stores its default
getattr_store(ist, o, name) ==
    IF IsField(ModelOf(o), name) \/ ist.attrs[o][name].set THEN ist
    ELSE IF InMap(BACKREF(ModelOf(o)), name) THEN Store(ist, o, name, NoneRef)
    ELSE IF InMap(BACKREF_USELIST(ModelOf(o)), name) THEN Store(ist, o, name, <<>>)
    ELSE ist

\* whether getattr(o, name) finds anything (else AttributeError)
hasattr(o, name) ==
    \/ IsField(ModelOf(o), name)
    \/ InMap(BACKREF(ModelOf(o)), name)
    \/ InMap(BACKREF_USELIST(ModelOf(o)), name)

\* the dataclass __eq__ (by value), and == on field values (identity first)
RECURSIVE EqObj(_, _, _)
EqRef(ist, x, y) ==
    x = y \/ (x # NoneRef /\ y # NoneRef /\ EqObj(ist, x, y))

EqObj(ist, a, b) ==
    /\ ModelOf(a) = ModelOf(b)
    /\ \A i \in 1..Len(Fields(ModelOf(a))) :
        LET f == Fields(ModelOf(a))[i]
            va == ist.fld[a][f]
            vb == ist.fld[b][f]
        IN  IF unwrapped_type(ModelOf(a), f) \notin Models THEN va = vb
            ELSE IF relation(ModelOf(a), f) = "ONE_TO_MANY"
                 THEN /\ Len(va) = Len(vb)
                      /\ \A j \in 1..Len(va) : EqRef(ist, va[j], vb[j])
            ELSE EqRef(ist, va, vb)

\* `self in backref_value`
InList(ist, lst, o) ==
    \E i \in 1..Len(lst) : lst[i] = o \/ EqObj(ist, lst[i], o)

(***************************************************************************)
(* ModelBase.__setattr__ (model_base.py): the automatic back-references.   *)
(***************************************************************************)
\* key in backref: put self into the related instance's collection
BackrefAppend(ist, o, key, value) ==
    LET name == MapGet(BACKREF(ModelOf(o)), key)
        ist1 == getattr_store(ist, value, name)
        backref_value == ReadVal(ist1, value, name)
    IN  IF InList(ist1, backref_value, o) THEN ist1
        ELSE IF IsField(ModelOf(value), name)
             THEN [ist1 EXCEPT !.fld[value][name] = Append(backref_value, o)]
             ELSE [ist1 EXCEPT !.attrs[value][name].val = Append(backref_value, o)]

\* setattr(model, my_name_at_model, self), called from the uselist branch: the
\* related model's own __setattr__, where the name is one of its backrefs
setattr_inner(ist, o, key, value) ==
    LET ist1 == IF AUTO_SETATTR /\ value # NoneRef /\ InMap(BACKREF(ModelOf(o)), key)
                THEN BackrefAppend(ist, o, key, value)
                ELSE ist
    IN  Store(ist1, o, key, value)

\* key in backref_uselist: point every element's singular back-reference at self
RECURSIVE UselistLoop(_, _, _, _, _)
UselistLoop(ist, o, name, value, i) ==
    IF i > Len(value) THEN ist
    ELSE The({UselistLoop(ist2, o, name, value, i + 1) :
                ist2 \in {The({(IF ReadVal(ist1, value[i], name) # o
                                 THEN setattr_inner(ist1, value[i], name, o)
                                 ELSE ist1) :
                                ist1 \in {getattr_store(ist, value[i], name)}})}})

\* ModelBase.__setattr__(self, key, value); value is an instance or None for a
\* MANY_TO_ONE field, a list of instances for a ONE_TO_MANY field of models
setattr(ist, o, key, value) ==
    LET m == ModelOf(o)
        ist1 ==
            IF ~AUTO_SETATTR THEN ist
            ELSE IF InMap(BACKREF(m), key)
                 THEN IF value = NoneRef THEN ist
                      ELSE BackrefAppend(ist, o, key, value)
            ELSE IF InMap(BACKREF_USELIST(m), key)
                 THEN UselistLoop(ist, o, MapGet(BACKREF_USELIST(m), key), value, 1)
            ELSE ist
    IN  Store(ist1, o, key, value)

\* the dataclass __init__: every field is assigned in declaration order; a field
\* not yet assigned reads as its default (None, or [] for a list)
RECURSIVE InitLoop(_, _, _, _)
InitLoop(ist, o, args, i) ==
    IF i > Len(Fields(ModelOf(o))) THEN ist
    ELSE The({InitLoop(ist1, o, args, i + 1) :
                ist1 \in {setattr(ist, o, Fields(ModelOf(o))[i],
                                  args[Fields(ModelOf(o))[i]])}})

construct(ist, o, args) ==
    InitLoop([ist EXCEPT !.fld[o] = NoFields, !.attrs[o] = NoAttrs], o, args, 1)

InstState == [fld |-> fld, attrs |-> attrs]

(***************************************************************************)
(* MemoryRepositoryBase: add, remove (memory_backend.py).                  *)
(* A repository call works on rs = [items, pk] and yields the new rs with  *)
(* exc, the exception it raised ("ok" when it returned).                   *)
(***************************************************************************)
Raise(rs, e) == [items |-> rs.items, pk |-> rs.pk, exc |-> e]

\* _verify_obj: isinstance(obj, self._model_cls)
verify_obj(r, o) == ModelOf(o) = r

\* list[pk] = value on a Python list (pk >= 0): IndexError beyond the end
ListSet(l, i, v) == [l EXCEPT ![i + 1] = v]

\* a remove() that deletes the slot instead of blanking it
removeShrinking(r, rs, o) ==
    IF ~verify_obj(r, o) THEN Raise(rs, "TypeError")
    ELSE IF rs.pk[o] = NoPk THEN Raise(rs, "ValueError")
    ELSE IF rs.pk[o] >= Len(rs.items[r]) THEN Raise(rs, "IndexError")
    ELSE [items |-> [rs.items EXCEPT ![r] =
                        [i \in 1..(Len(@) - 1) |->
                            IF i <= rs.pk[o] THEN @[i] ELSE @[i + 1]]],
          pk |-> rs.pk, exc |-> "ok"]

\* a variant that appends whatever pk the instance has
add_appending(r, rs, o) ==
    IF ~verify_obj(r, o) THEN Raise(rs, "TypeError")
    ELSE [items |-> [rs.items EXCEPT ![r] = Append(@, o)],
          pk |-> [rs.pk EXCEPT ![o] = IF @ = NoPk THEN Len(rs.items[r]) ELSE @],
          exc |-> "ok"]

add(r, rs, o) ==
    IF ~verify_obj(r, o) THEN Raise(rs, "TypeError")
    ELSE IF rs.pk[o] = NoPk
         THEN [items |-> [rs.items EXCEPT ![r] = Append(@, o)],
               pk |-> [rs.pk EXCEPT ![o] = Len(rs.items[r])],
               exc |-> "ok"]
    ELSE IF rs.pk[o] >= Len(rs.items[r]) THEN Raise(rs, "IndexError")
    ELSE [items |-> [rs.items EXCEPT ![r] = ListSet(@, rs.pk[o], o)],
          pk |-> rs.pk, exc |-> "ok"]

remove(r, rs, o) ==
    IF ~verify_obj(r, o) THEN Raise(rs, "TypeError")
    ELSE IF rs.pk[o] = NoPk THEN Raise(rs, "ValueError")
    ELSE IF rs.pk[o] >= Len(rs.items[r]) THEN Raise(rs, "IndexError")
    ELSE [items |-> [rs.items EXCEPT ![r] = ListSet(@, rs.pk[o], NoneRef)],
          pk |-> rs.pk, exc |-> "ok"]

RepoState == [items |-> items, pk |-> pk]

(***************************************************************************)
(* Actions: constructing instances, and add / remove on a repository.      *)
(***************************************************************************)
\* instances of a class are taken in order
NextFree(o) == o \notin exists /\ o[2] = Cardinality(exists \cap Inst(ModelOf(o))) + 1

\* the pk keyword of the constructor MemoryBackend._add_pk installs
PkArgs == {NoPk} \cup 0..(MaxInst - 1)

New(o, args, p) ==
    /\ NextFree(o)
    /\ exists' = exists \cup {o}
    /\ LET ist == construct(InstState, o, args)
       IN  fld' = ist.fld /\ attrs' = ist.attrs
    /\ pk' = [pk EXCEPT ![o] = p]
    /\ last' = [op |-> "new", obj |-> o, exc |-> "ok"]
    /\ UNCHANGED <<items, removed, sess, cur, reg>>

NewHouse(o, address, p) ==
    New(o, [NoFields EXCEPT !.address = address], p)

NewShelf(o, content, length, p) ==
    New(o, [NoFields EXCEPT !.content = content, !.length = length], p)

NewKitchen(o, house, shelves, p) ==
    New(o, [NoFields EXCEPT !.house = house, !.shelves = shelves], p)

NewDen(o, house, p) ==
    New(o, [NoFields EXCEPT !.house = house], p)

\* o.key = value on a constructed instance
SetAttr(o, key, value) ==
    /\ o \in exists
    /\ LET ist == setattr(InstState, o, key, value)
       IN  fld' = ist.fld /\ attrs' = ist.attrs
    /\ last' = [op |-> "setattr", obj |-> o, exc |-> "ok"]
    /\ UNCHANGED <<exists, pk, items, removed, sess, cur, reg>>

\* repository_cls(context).add(obj), r the repository's model class
Add(r, o) ==
    /\ o \in exists
    /\ LET rs == add(r, RepoState, o)
       IN  /\ items' = rs.items
           /\ pk' = rs.pk
           /\ last' = [op |-> "add", obj |-> o, exc |-> rs.exc]
    /\ UNCHANGED <<exists, fld, attrs, removed, sess, cur, reg>>

\* repository_cls(context).remove(obj)
Remove(r, o) ==
    /\ o \in exists
    /\ LET rs == remove(r, RepoState, o)
       IN  /\ items' = rs.items
           /\ pk' = rs.pk
           /\ last' = [op |-> "remove", obj |-> o, exc |-> rs.exc]
           /\ removed' = IF rs.exc = "ok" THEN removed \cup {o} ELSE removed
    /\ UNCHANGED <<exists, fld, attrs, sess, cur, reg>>

NoLast == [op |-> "none", obj |-> NoneRef, exc |-> "ok"]

\* no view is held
NoCur == [repo |-> "None", items |-> <<>>]

\* the group classes once HouseGroup, KitchenGroup and ShelfGroup are declared
\* as in tests/test_groups.py (DenGroup is not yet), HouseGroup with
\* @search_fields("address") as well: _SUBGROUPS in registration order,
\* _SUPER_GROUP and _SEARCH_FIELDS of the group class of each model
GroupClasses ==
    [subgroups |-> [m \in Models |->
                        CASE m = "House" -> <<<<"kitchens", "Kitchen">>>>
                          [] m = "Kitchen" -> <<<<"shelves", "Shelf">>>>
                          [] OTHER -> <<>>],
     super |-> [m \in Models |->
                        CASE m = "Kitchen" -> "House"
                          [] m = "Shelf" -> "Kitchen"
                          [] OTHER -> "None"],
     search_fields |-> [m \in Models |->
                        CASE m = "House" -> <<"address">>
                          [] m = "Shelf" -> <<"content">>
                          [] OTHER -> <<>>]]

\* a session nothing was done with
NoSession == [pc |-> "idle", db |-> {}, new |-> {}, deleted |-> {},
              commits |-> 0, rollbacks |-> 0, outcome |-> "none",
              dbAtEntry |-> {}, added |-> {}, dropped |-> {}, steps |-> 0]

InitInstances ==
    /\ exists = {}
    /\ fld = [o \in Instances |-> NoFields]
    /\ attrs = [o \in Instances |-> NoAttrs]
    /\ pk = [o \in Instances |-> NoPk]
    /\ items = [m \in Models |-> <<>>]
    /\ removed = {}
    /\ last = NoLast
    /\ sess = NoSession
    /\ cur = NoCur
    /\ reg = GroupClasses

(***************************************************************************)
(* SpecRepo: the in-memory repository of one model class (House), with     *)
(* instances constructed with or without an explicit pk, and calls on the  *)
(* right repository and on another class's.                                *)
(***************************************************************************)
RepoNext ==
    \/ \E o \in Inst("Den"), p \in PkArgs : NewDen(o, NoneRef, p)
    \/ \E r \in {"House", "Den"}, o \in Inst("Den") : Add(r, o)
    \/ \E r \in {"House", "Den"}, o \in Inst("Den") : Remove(r, o)

SpecRepo == InitInstances /\ [][RepoNext]_vars

\* C2: remove(x) never changes the pk of any other instance, and an instance
\* that add gives its pk (it had none) after remove(x) gets a pk other than x.pk:
\* the pk of a removed instance is never given out again.
C2_RemoveKeepsPksAndNoReuse ==
    [][/\ (last'.op = "remove") =>
            \A y \in Instances \ {last'.obj} : pk'[y] = pk[y]
       /\ (last'.op = "add" /\ last'.exc = "ok" /\ pk[last'.obj] = NoPk) =>
            /\ pk'[last'.obj] # NoPk
            /\ \A x \in removed : pk'[last'.obj] # pk[x]]_vars

\* a remove(x) that blanked a slot, then an add that gave a new instance its pk
\* while another instance is still stored
C2_Witness ==
    /\ last.op = "add" /\ last.exc = "ok"
    /\ last.obj \notin removed
    /\ pk[last.obj] = Len(items["Den"]) - 1
    /\ \E x \in removed : /\ pk[x] < pk[last.obj]
                          /\ items["Den"][pk[x] + 1] = NoneRef
    /\ \E z \in exists \ (removed \cup {last.obj}) :
            pk[z] # NoPk /\ pk[z] < Len(items["Den"]) /\ items["Den"][pk[z] + 1] = z

(***************************************************************************)
(* SpecBackref: houses and dens (Den.house is a MANY_TO_ONE field to       *)
(* House) are constructed and the field re-assigned; no repository is      *)
(* involved.                                                               *)
(***************************************************************************)
MaxGraph == 2       \* instances per model class in the instance graph

Graph(m) == {o \in Inst(m) : o[2] <= MaxGraph}

\* a House or None, as the value of a MANY_TO_ONE field
HouseArgs == (exists \cap Graph("House")) \cup {NoneRef}

Contents == {<<>>, <<<<1, 2>>>>}
Lengths == {20, 30}

BackrefNext ==
    \/ \E o \in Graph("House"), w \in Words : NewHouse(o, w, NoPk)
    \/ \E o \in Graph("Den"), h \in HouseArgs : NewDen(o, h, NoPk)
    \/ \E o \in Graph("Den"), h \in HouseArgs : SetAttr(o, "house", h)

SpecBackref == InitInstances /\ [][BackrefNext]_vars

\* the instances of class m whose MANY_TO_ONE field f now references b
Referencing(m, f, b) == {a \in exists \cap Inst(m) : fld[a][f] = b}

SeqRange(q) == {q[i] : i \in 1..Len(q)}
NoDuplicates(q) == \A i, j \in 1..Len(q) : q[i] = q[j] => i = j

\* C1: for every MANY_TO_ONE field A.f to B, the collection back-reference of
\* each B instance named after A's plural name holds exactly the A instances
\* whose f references that B instance now, each once (and is empty for a B that
\* no A references).
C1_BackrefExact ==
    \A b \in exists \cap Inst("House") :
        /\ SeqRange(attrs[b].kitchens.val) = Referencing("Kitchen", "house", b)
        /\ NoDuplicates(attrs[b].kitchens.val)
        /\ SeqRange(attrs[b].dens.val) = Referencing("Den", "house", b)
        /\ NoDuplicates(attrs[b].dens.val)

(***************************************************************************)
(* SpecUow: SqlalchemyRepositoryBase.uow and the calls made inside it      *)
(* (sqlsorcery/sqlalchemy_repository.py).  The session is SQLAlchemy's:    *)
(* add and delete are buffered, commit writes them to the database (or     *)
(* fails), rollback drops them.                                            *)
(***************************************************************************)
MaxRows == 2        \* model instances the session is given
MaxBody == 3        \* calls in the body of one unit of work

Rows == 1..MaxRows

\* Session.add: a new row becomes pending; a row marked deleted is restored
session_add(ss, x) ==
    IF x \in ss.deleted THEN [ss EXCEPT !.deleted = @ \ {x}]
    ELSE IF x \in ss.db THEN ss
    ELSE [ss EXCEPT !.new = @ \cup {x}]

\* Session.delete raises for an instance that is not persisted
session_delete_raises(ss, x) == x \notin ss.db

session_delete(ss, x) == [ss EXCEPT !.deleted = @ \cup {x}]

\* Session.commit that succeeds
session_commit(ss) ==
    [ss EXCEPT !.db = (@ \cup ss.new) \ ss.deleted, !.new = {}, !.deleted = {},
               !.commits = @ + 1]

session_rollback(ss) ==
    [ss EXCEPT !.new = {}, !.deleted = {}, !.rollbacks = @ + 1]

\* uow(): the body raised; the ExitStack callback rolls back
uow_exit_raised(ss) == session_rollback(ss)

\* uow(): the body returned; commit, and roll back if the commit raises.
\* Yields the session and whether the unit of work raised.
uow_exit_returned(ss, commit_ok) ==
    IF commit_ok THEN [ss |-> session_commit(ss), raised |-> FALSE]
    ELSE [ss |-> session_rollback(ss), raised |-> TRUE]

\* SqlalchemyView.all / count / first / last: the query runs in a unit of work
\* of its own
view_read(ss, query_ok, commit_ok) ==
    IF query_ok THEN uow_exit_returned(ss, commit_ok)
    ELSE [ss |-> uow_exit_raised(ss), raised |-> TRUE]

\* the outermost unit of work is left
Leave(ss, raised) ==
    [ss EXCEPT !.pc = "done", !.outcome = IF raised THEN "raised" ELSE "returned"]

\* `with repo.uow():` is entered while no unit of work is active
UowEnter ==
    /\ sess.pc = "idle"
    /\ sess' = [sess EXCEPT !.pc = "body", !.commits = 0, !.rollbacks = 0,
                            !.outcome = "none", !.dbAtEntry = sess.db,
                            !.added = {}, !.dropped = {}, !.steps = 0]
    /\ UNCHANGED ivars

\* repo.add(x) in the body
BodyAdd(x) ==
    /\ sess.pc = "body" /\ sess.steps < MaxBody
    /\ sess' = [session_add(sess, x) EXCEPT !.added = @ \cup {x}, !.steps = @ + 1]
    /\ UNCHANGED ivars

\* repo.remove(x) in the body; an exception leaves the unit of work
BodyRemove(x) ==
    /\ sess.pc = "body" /\ sess.steps < MaxBody
    /\ sess' = IF session_delete_raises(sess, x)
               THEN Leave(uow_exit_raised(sess), TRUE)
               ELSE [session_delete(sess, x) EXCEPT !.dropped = @ \cup {x},
                                                    !.steps = @ + 1]
    /\ UNCHANGED ivars

\* view.all() (count, first, last) in the body
BodyRead(query_ok, commit_ok) ==
    /\ sess.pc = "body" /\ sess.steps < MaxBody
    /\ LET r == view_read(sess, query_ok, commit_ok)
       IN  sess' = IF r.raised THEN Leave(uow_exit_raised(r.ss), TRUE)
                   ELSE [r.ss EXCEPT !.steps = @ + 1]
    /\ UNCHANGED ivars

\* the body raises
BodyRaise ==
    /\ sess.pc = "body"
    /\ sess' = Leave(uow_exit_raised(sess), TRUE)
    /\ UNCHANGED ivars

\* the body returns
BodyReturn(commit_ok) ==
    /\ sess.pc = "body"
    /\ LET r == uow_exit_returned(sess, commit_ok)
       IN  sess' = Leave(r.ss, r.raised)
    /\ UNCHANGED ivars

\* the caller goes on to its next unit of work
UowNext ==
    /\ sess.pc = "done"
    /\ sess' = [sess EXCEPT !.pc = "idle"]
    /\ UNCHANGED ivars

UowNextStep ==
    \/ UowEnter
    \/ \E x \in Rows : BodyAdd(x)
    \/ \E x \in Rows : BodyRemove(x)
    \/ \E q, c \in BOOLEAN : BodyRead(q, c)
    \/ BodyRaise
    \/ \E c \in BOOLEAN : BodyReturn(c)
    \/ UowNext

SpecUow == InitInstances /\ [][UowNextStep]_vars

\* the writes of the unit of work that reached the database
Persisted ==
    {x \in sess.added : x \in sess.db /\ x \notin sess.dbAtEntry}
    \cup {x \in sess.dropped : x \notin sess.db /\ x \in sess.dbAtEntry}

\* C3: when a unit of work whose body adds, removes and reads views is left: if
\* the body returned, the session was committed exactly once and not rolled
\* back; if the body or the commit raised, the session was rolled back, none of
\* the writes made inside is persisted, and the exception reached the caller.
C3_CommitOnceOrRollBack ==
    sess.pc = "done" =>
        /\ sess.outcome = "returned" => sess.commits = 1 /\ sess.rollbacks = 0
        /\ sess.outcome = "raised" => sess.rollbacks >= 1 /\ Persisted = {}

\* a step inside the body of the active unit of work after which the body
\* goes on and the session has been committed or rolled back once more: a
\* unit of work was entered inside the active one and ran to its end
InnerUowRan ==
    /\ sess.pc = "body" /\ sess'.pc = "body"
    /\ sess'.commits # sess.commits \/ sess'.rollbacks # sess.rollbacks

\* C18: entering a unit of work while another one is active on the session is
\* rejected with an error: no call made inside an active unit of work (a view
\* read in particular) opens an inner unit of work that commits.
C18_NestedUowRejected == [][~InnerUowRan]_vars

(***************************************************************************)
(* EnhancedFieldBase.parse (enhanced_fields.py): the modifiers around a     *)
(* field's declared type are merged into one EnhancedFieldResult.  A       *)
(* declared type is [mods, list, of]: the modifiers from the outermost in, *)
(* around List[of] or of.  A modifier is [name, relation, kwargs]; Related *)
(* stands for a subclass of EnhancedFieldBase whose build() asks for a     *)
(* relation, which none of Indexed, PrimaryKey, Unique, NonNullable does.  *)
(***************************************************************************)
MaxChain == 3       \* modifiers around a declared type

\* column_arguments: the value under each key, "unset" for a key not in the dict
NoColumnArguments ==
    [primary_key |-> "unset", unique |-> "unset", nullable |-> "unset",
     autoincrement |-> "unset"]

ColumnKeys == DOMAIN NoColumnArguments

\* dict.update
update(d, e) == [k \in ColumnKeys |-> IF e[k] # "unset" THEN e[k] ELSE d[k]]

Modifiers ==
    {[name |-> n, relation |-> "NONE", kwargs |-> NoColumnArguments] :
        n \in {"Indexed", "PrimaryKey", "Unique", "NonNullable"}}
    \cup {[name |-> "PrimaryKey", relation |-> "NONE",
           kwargs |-> [NoColumnArguments EXCEPT !.autoincrement = "False"]]}
    \cup {[name |-> "Related", relation |-> r, kwargs |-> NoColumnArguments] :
            r \in {"ONE_TO_MANY", "MANY_TO_ONE"}}

Chains == UNION {[1..n -> Modifiers] : n \in 0..MaxChain}

DeclaredTypes ==
    {[mods |-> c, list |-> l, of |-> t] :
        c \in Chains, l \in BOOLEAN, t \in {"int", "str", "House"}}

EnhancedFieldResult(unwrapped, constraints, arguments, rel) ==
    [exc |-> "ok", unwrapped_type |-> unwrapped, table_constraints |-> constraints,
     column_arguments |-> arguments, relation |-> rel]

\* a variant of __iadd__ that tests the primary key against the arguments
\* other brings, not against the merged ones
iadd_unmerged(self, other) ==
    LET rel == IF self.relation # "NONE" THEN self.relation ELSE other.relation
    IN  [exc |-> IF /\ self.relation # "NONE" /\ other.relation # "NONE"
                    /\ self.relation # other.relation
                 THEN "TypeError"
                 ELSE IF rel = "ONE_TO_MANY" /\ other.column_arguments.primary_key = "True"
                 THEN "TypeError"
                 ELSE "ok",
         unwrapped_type |-> other.unwrapped_type,
         table_constraints |-> self.table_constraints \o other.table_constraints,
         column_arguments |-> update(self.column_arguments, other.column_arguments),
         relation |-> rel]

\* EnhancedFieldResult.__iadd__
iadd(self, other) ==
    LET rel == IF self.relation # "NONE" THEN self.relation ELSE other.relation
        arguments == update(self.column_arguments, other.column_arguments)
    IN  [exc |-> IF /\ self.relation # "NONE" /\ other.relation # "NONE"
                    /\ self.relation # other.relation
                 THEN "TypeError"     \* More than one relation requested
                 ELSE IF rel = "ONE_TO_MANY" /\ arguments.primary_key = "True"
                 THEN "TypeError"     \* ONE_TO_MANY ... cannot be used as a primary key
                 ELSE "ok",
         unwrapped_type |-> other.unwrapped_type,
         table_constraints |-> self.table_constraints \o other.table_constraints,
         column_arguments |-> arguments,
         relation |-> rel]

\* the type a modifier is around: self._field_type
field_type_of(t) == [mods |-> Tail(t.mods), list |-> t.list, of |-> t.of]

\* build() of the outermost modifier of t
build(t) ==
    LET m == t.mods[1]
    IN  EnhancedFieldResult(field_type_of(t), <<>>,
            IF m.name = "PrimaryKey"
            THEN update([NoColumnArguments EXCEPT !.primary_key = "True"], m.kwargs)
            ELSE IF m.name = "Unique"
            THEN [NoColumnArguments EXCEPT !.unique = "True"]
            ELSE IF m.name = "NonNullable"
            THEN [NoColumnArguments EXCEPT !.nullable = "False"]
            ELSE NoColumnArguments,
            m.relation)

\* while isinstance(field_type, cls): result += field_type.build(...)
RECURSIVE BuildLoop(_, _)
BuildLoop(result, t) ==
    IF result.exc # "ok" \/ t.mods = <<>> THEN result
    ELSE BuildLoop(iadd(result, build(t)), field_type_of(t))

\* a variant of relation_result that keeps List[X] as the unwrapped type
relation_result_whole(t) ==
    IF t.list THEN EnhancedFieldResult(t, <<>>, NoColumnArguments, "ONE_TO_MANY")
    ELSE IF t.of \in Models THEN EnhancedFieldResult(t, <<>>, NoColumnArguments, "MANY_TO_ONE")
    ELSE EnhancedFieldResult(t, <<>>, NoColumnArguments, "NONE")

\* the relation the type without its modifiers implies: relation_result
relation_result(t) ==
    IF t.list
    THEN EnhancedFieldResult([mods |-> <<>>, list |-> FALSE, of |-> t.of], <<>>,
                             NoColumnArguments, "ONE_TO_MANY")
    ELSE IF t.of \in Models
    THEN EnhancedFieldResult(t, <<>>, NoColumnArguments, "MANY_TO_ONE")
    ELSE EnhancedFieldResult(t, <<>>, NoColumnArguments, "NONE")

\* enhanced_field.post(orig_cls, field, result) of modifier m
post(m, result) ==
    IF m.name = "Indexed"
    THEN [result EXCEPT !.table_constraints =
            Append(@, IF ~result.unwrapped_type.list /\ result.unwrapped_type.of = "str"
                      THEN "ix_substr" ELSE "ix")]
    ELSE IF /\ m.name = "PrimaryKey"
            /\ ~result.unwrapped_type.list /\ result.unwrapped_type.of = "int"
            /\ result.column_arguments.autoincrement = "unset"
    THEN [result EXCEPT !.column_arguments.autoincrement = "True"]
    ELSE result

RECURSIVE PostLoop(_, _, _)
PostLoop(mods, i, result) ==
    IF i > Len(mods) THEN result ELSE PostLoop(mods, i + 1, post(mods[i], result))

\* EnhancedFieldBase.parse(orig_cls, field), field.type = t
parse(t) ==
    LET start == EnhancedFieldResult(t, <<>>, NoColumnArguments, "NONE")
        built == BuildLoop(start, t)
        bare == [mods |-> <<>>, list |-> t.list, of |-> t.of]
        result == iadd(built, relation_result(bare))
    IN  IF built.exc # "ok" THEN built
        ELSE IF result.exc # "ok" THEN result
        ELSE PostLoop(t.mods, 1, result)

\* a model class is compiled with a field of the declared type t (the field
\* is parsed once, when rubedo_model wraps the class)
Parse(t) ==
    /\ last = NoLast
    /\ LET res == parse(t)
       IN  last' = [op |-> "parse", obj |-> NoneRef, exc |-> res.exc,
                    field_type |-> t, res |-> res]
    /\ UNCHANGED <<exists, fld, attrs, pk, items, removed, sess, cur, reg>>

FieldsNext == \E t \in DeclaredTypes : Parse(t)

SpecFields == InitInstances /\ [][FieldsNext]_vars

\* the relations the modifiers of t and its bare type contribute, in order
Contributions(t) ==
    [i \in 1..Len(t.mods) |-> t.mods[i].relation]
    \o <<relation_result([mods |-> <<>>, list |-> t.list, of |-> t.of]).relation>>

Conflicting(t) ==
    \E i, j \in 1..Len(Contributions(t)) :
        /\ Contributions(t)[i] # "NONE" /\ Contributions(t)[j] # "NONE"
        /\ Contributions(t)[i] # Contributions(t)[j]

Asserts(t, rel) == \E i \in 1..Len(Contributions(t)) : Contributions(t)[i] = rel

HasPrimaryKey(t) == \E i \in 1..Len(t.mods) : t.mods[i].name = "PrimaryKey"

\* C14: parse fails with the conflict error (a TypeError) whenever two
\* contributions to the chain, modifiers or the relation inferred from the
\* declared type, assert different relations, and whenever a PrimaryKey
\* modifier is anywhere in a chain that resolves to ONE_TO_MANY.
C14_ConflictsRaise ==
    (/\ last.op = "parse"
     /\ \/ Conflicting(last.field_type)
        \/ /\ HasPrimaryKey(last.field_type)
           /\ Asserts(last.field_type, "ONE_TO_MANY"))
    => last.exc = "TypeError"

\* PrimaryKey is the innermost modifier, inside the one that asks for
\* ONE_TO_MANY, and no two relations differ
C14_Witness ==
    /\ last.op = "parse"
    /\ Len(last.field_type.mods) >= 2
    /\ last.field_type.mods[1].relation = "ONE_TO_MANY"
    /\ last.field_type.mods[Len(last.field_type.mods)].name = "PrimaryKey"
    /\ ~Conflicting(last.field_type)
    /\ last.exc = "TypeError"

Plain(t) ==
    \A i \in 1..Len(t.mods) : t.mods[i].name \in {"Indexed", "Unique", "NonNullable"}

\* C15: with no relation asked for by a modifier, under any nesting of
\* Indexed, Unique, NonNullable: List[X] resolves to ONE_TO_MANY with X
\* unwrapped, a model class to MANY_TO_ONE with that class, anything else to
\* no relation with the declared type itself.
C15_RelationInferred ==
    (last.op = "parse" /\ Plain(last.field_type))
    => /\ last.exc = "ok"
       /\ last.res.unwrapped_type = [mods |-> <<>>, list |-> FALSE, of |-> last.field_type.of]
       /\ last.res.relation =
            IF last.field_type.list THEN "ONE_TO_MANY"
            ELSE IF last.field_type.of \in Models THEN "MANY_TO_ONE"
            ELSE "NONE"

\* a List[House] inside two modifiers
C15_Witness ==
    /\ last.op = "parse" /\ Plain(last.field_type)
    /\ Len(last.field_type.mods) >= 2
    /\ last.field_type.list /\ last.field_type.of = "House"
    /\ last.res.relation = "ONE_TO_MANY"

(***************************************************************************)
(* The identity of a model class: MemoryBackend.create_repository / _add_pk *)
(* (memory_backend.py) and SqlSorceryBackend.create_repository /            *)
(* _create_pk_if_doesnt_exists (sqlsorcery/sqlsorcery.py).  A definition   *)
(* is the sequence of its dataclass fields, [name, type, primary_key]:     *)
(* primary_key is column_arguments.get("primary_key", False) of the        *)
(* field's parse result.  A field named pk is taken to be declared with    *)
(* PrimaryKey.                                                             *)
(***************************************************************************)
MaxFields == 2      \* fields of a model definition

FieldNames == {"pk", "title", "author", "description"}

DefinedField ==
    {f \in [name : FieldNames, type : {"int", "str"}, primary_key : BOOLEAN] :
        f.name = "pk" => f.primary_key}

Definitions ==
    {d \in UNION {[1..n -> DefinedField] : n \in 1..MaxFields} :
        \A i, j \in 1..Len(d) : d[i].name = d[j].name => i = j}

DEFAULT_PK_NAME == "pk"

NamesOf(d) == {d[i].name : i \in 1..Len(d)}

\* MemoryBackend.create_repository: pk is added (an attribute set by __init__,
\* None until add assigns the index in _items) unless a field is named pk;
\* add, remove and view find an instance by its pk attribute
memory_create_repository(d) ==
    [exc |-> "ok",
     synthesized |-> DEFAULT_PK_NAME \notin NamesOf(d),
     identity |-> {DEFAULT_PK_NAME},
     pk |-> DEFAULT_PK_NAME,
     pk_type |-> "int"]

\* _SQLALCHEMY_TYPES, for the types of the fields here
SQLALCHEMY_TYPES(t) == IF t = "int" THEN "BigInteger" ELSE "Text"

\* _create_pk_if_doesnt_exists: the first field whose column_arguments have
\* primary_key, 0 when there is none
pk_field(d) ==
    IF \E i \in 1..Len(d) : d[i].primary_key
    THEN CHOOSE i \in 1..Len(d) :
            d[i].primary_key /\ \A j \in 1..(i - 1) : ~d[j].primary_key
    ELSE 0

\* SqlSorceryBackend.create_repository: the pk column (synthesized, or the
\* column of pk_field with pk as its synonym), then a column for every other
\* field with the field's column_arguments
sql_create_repository(d) ==
    [exc |-> "ok",
     synthesized |-> pk_field(d) = 0,
     identity |-> IF pk_field(d) = 0 THEN {DEFAULT_PK_NAME}
                  ELSE {d[i].name : i \in {j \in 1..Len(d) : d[j].primary_key}},
     pk |-> IF pk_field(d) = 0 THEN DEFAULT_PK_NAME ELSE d[pk_field(d)].name,
     pk_type |-> IF pk_field(d) = 0 THEN "Integer"
                 ELSE SQLALCHEMY_TYPES(d[pk_field(d)].type)]

Backends == {"MemoryBackend", "SqlSorceryBackend"}

create_repository(backend, d) ==
    IF backend = "MemoryBackend" THEN memory_create_repository(d)
    ELSE sql_create_repository(d)

\* a definition is compiled with a backend
Compile(backend, d) ==
    /\ last = NoLast
    /\ LET res == create_repository(backend, d)
       IN  last' = [op |-> "compile", obj |-> NoneRef, exc |-> res.exc,
                    backend |-> backend, definition |-> d, res |-> res]
    /\ UNCHANGED <<exists, fld, attrs, pk, items, removed, sess, cur, reg>>

IdentityNext ==
    \E backend \in Backends, d \in Definitions : Compile(backend, d)

SpecIdentity == InitInstances /\ [][IdentityNext]_vars

Declared(d) == {d[i].name : i \in {j \in 1..Len(d) : d[j].primary_key}}

\* C16: a compiled model has exactly one identity field in every backend: the
\* declared primary-key field, which pk then names, or a synthesized pk when
\* none is declared; a declared primary key is not passed over for a
\* synthesized pk.  (Stated for definitions declaring at most one.)
C16_OneIdentity ==
    (last.op = "compile" /\ Cardinality(Declared(last.definition)) <= 1)
    => /\ last.exc = "ok"
       /\ Cardinality(last.res.identity) = 1
       /\ IF Declared(last.definition) = {}
          THEN last.res.synthesized /\ last.res.identity = {DEFAULT_PK_NAME}
          ELSE /\ ~last.res.synthesized
               /\ last.res.identity = Declared(last.definition)
               /\ last.res.pk \in Declared(last.definition)

(***************************************************************************)
(* MemoryView (memory_backend.py) and the field comparators                *)
(* (field_descriptors.py).  A view is [repo, items]: the model class of    *)
(* its repository and its _items list; a call that builds a view yields    *)
(* it with exc, the exception raised ("ok" when it returned).              *)
(***************************************************************************)
ViewOk(r, its) == [exc |-> "ok", repo |-> r, items |-> its]
ViewRaise(r, e) == [exc |-> e, repo |-> r, items |-> <<>>]

\* the pks argument of MemoryView: None, or a list of pks
NonePks == [none |-> TRUE, list |-> <<>>]
Pks(l) == [none |-> FALSE, list |-> l]

\* for pk in pks: item = repo.get_items()[pk]; a None item is left out
RECURSIVE ViewLoop(_, _, _, _)
ViewLoop(its, pks, i, acc) ==
    IF i > Len(pks) THEN [exc |-> "ok", items |-> acc]
    ELSE IF pks[i] = NoPk THEN [exc |-> "TypeError", items |-> <<>>]
    ELSE IF pks[i] >= Len(its) THEN [exc |-> "IndexError", items |-> <<>>]
    ELSE ViewLoop(its, pks, i + 1,
                  IF its[pks[i] + 1] = NoneRef THEN acc
                  ELSE Append(acc, its[pks[i] + 1]))

\* MemoryView.__init__(repo, pks)
MemoryView(r, rs, pks) ==
    IF pks.none THEN ViewOk(r, rs.items[r])
    ELSE LET l == ViewLoop(rs.items[r], pks.list, 1, <<>>)
         IN  [exc |-> l.exc, repo |-> r, items |-> l.items]

\* MemoryRepositoryBase.view(pks)
view(r, rs, pks) == MemoryView(r, rs, pks)

HasNone(its) == \E i \in 1..Len(its) : its[i] = NoneRef

\* ViewBase.all_pk: [model.pk for model in self.all()]
all_pk(v, rs) ==
    IF HasNone(v.items) THEN [exc |-> "AttributeError", pks |-> <<>>]
    ELSE [exc |-> "ok", pks |-> [i \in 1..Len(v.items) |-> rs.pk[v.items[i]]]]

count(v) == Len(v.items)

\* MemoryView.first: self._items[0]; MemoryView.last: self._items[-1]
first(v) ==
    IF Len(v.items) = 0 THEN [exc |-> "IndexError", obj |-> NoneRef]
    ELSE [exc |-> "ok", obj |-> v.items[1]]

\* named last_ as the variable last holds the outcome of the last call
last_(v) ==
    IF Len(v.items) = 0 THEN [exc |-> "IndexError", obj |-> NoneRef]
    ELSE [exc |-> "ok", obj |-> v.items[Len(v.items)]]

\* Python values of the scalar fields: a float, a str or a list of str
PyNum(n) == [kind |-> "num", num |-> n, str |-> <<>>, list |-> <<>>]
PyStr(s) == [kind |-> "str", num |-> 0, str |-> s, list |-> <<>>]
PyList(l) == [kind |-> "list", num |-> 0, str |-> <<>>, list |-> l]

\* InstrumentedFieldBase.__get__: getattr(instance, self._raw_field)
getattr_field(ist, o, f) ==
    IF FieldType(ModelOf(o), f).list THEN PyList(ist.fld[o][f])
    ELSE IF FieldType(ModelOf(o), f).of = "str" THEN PyStr(ist.fld[o][f])
    ELSE PyNum(ist.fld[o][f])

\* `item in s` on a str: a substring test
IsSubstring(item, s) ==
    \E i \in 0..(Len(s) - Len(item)) : SubSeq(s, i + 1, i + Len(item)) = item

\* operator.contains(value, item): a substring of a str, an element of a list
operator_contains(value, item) ==
    IF value.kind = "str" THEN IsSubstring(item.str, value.str)
    ELSE \E i \in 1..Len(value.list) : value.list[i] = item.str

\* a comparator is [field, func, other]; _create_comparator's filter_ applies
\* func to the field's value and other (no field of these models is None)
comparator_filter(c, ist, o) ==
    LET value == getattr_field(ist, o, c.field)
    IN  CASE c.func = "ge" -> value.num >= c.other.num
          [] c.func = "lt" -> value.num < c.other.num
          [] c.func = "eq" -> value = c.other
          [] c.func = "contains" -> operator_contains(value, c.other)

\* the filter_ that where() ends up with.  args are reduced with and_.  Each
\* keyword wraps filter_ in a new_filter whose key and value are the
\* variables of the enclosing loop, read when the filter runs, which is after
\* the loop has ended: every new_filter of the chain compares its last pair.
where_filter(ist, o, args, kwargs) ==
    /\ \A j \in 1..Len(kwargs) :
            getattr_field(ist, o, kwargs[Len(kwargs)][1]) = kwargs[Len(kwargs)][2]
    /\ \A i \in 1..Len(args) : comparator_filter(args[i], ist, o)

\* MemoryView.where(*args, **kwargs); a None among the items has no attributes
where(v, rs, ist, args, kwargs) ==
    IF HasNone(v.items) THEN ViewRaise(v.repo, "AttributeError")
    ELSE LET Keep(o) == where_filter(ist, o, args, kwargs)
             kept == SelectSeq(v.items, Keep)
         IN  MemoryView(v.repo, rs, Pks([i \in 1..Len(kept) |-> rs.pk[kept[i]]]))

\* a variant of limit that passes every pk of all_pk() on
limit_whole(v, rs, n) ==
    LET ap == all_pk(v, rs)
    IN  IF ap.exc # "ok" THEN ViewRaise(v.repo, ap.exc)
        ELSE MemoryView(v.repo, rs, Pks(ap.pks))

\* all_pk()[:count], count >= 0
limit(v, rs, n) ==
    LET ap == all_pk(v, rs)
    IN  IF ap.exc # "ok" THEN ViewRaise(v.repo, ap.exc)
        ELSE MemoryView(v.repo, rs,
                        Pks(SubSeq(ap.pks, 1, IF n < Len(ap.pks) THEN n ELSE Len(ap.pks))))

\* the methods a MemoryView has
ViewMethods == {"all", "all_pk", "union", "count", "first", "last", "where", "limit"}

InSeq(q, x) == \E i \in 1..Len(q) : q[i] = x

\* for pk in <the pks of one argument view>: if pk not in pks: pks.append(pk)
RECURSIVE AppendNew(_, _, _)
AppendNew(pks, more, i) ==
    IF i > Len(more) THEN pks
    ELSE AppendNew(IF InSeq(pks, more[i]) THEN pks ELSE Append(pks, more[i]), more, i + 1)

\* for view in views: for pk in view.axll_pk(): ...  (the method looked up on
\* each argument view is axll_pk)
RECURSIVE UnionLoop(_, _, _, _)
UnionLoop(pks, views, rs, i) ==
    IF i > Len(views) THEN [exc |-> "ok", pks |-> pks]
    ELSE IF "axll_pk" \notin ViewMethods THEN [exc |-> "AttributeError", pks |-> <<>>]
    ELSE LET ap == all_pk(views[i], rs)
         IN  IF ap.exc # "ok" THEN [exc |-> ap.exc, pks |-> <<>>]
             ELSE UnionLoop(AppendNew(pks, ap.pks, 1), views, rs, i + 1)

\* MemoryView.union(views)
union(v, rs, views) ==
    LET ap == all_pk(v, rs)
    IN  IF ap.exc # "ok" THEN ViewRaise(v.repo, ap.exc)
        ELSE LET u == UnionLoop(ap.pks, views, rs, 1)
             IN  IF u.exc # "ok" THEN ViewRaise(v.repo, u.exc)
                 ELSE MemoryView(v.repo, rs, Pks(u.pks))

(***************************************************************************)
(* SpecView: the Shelf repository and the views over it.  The caller holds *)
(* one view (cur), taken from the repository or from the last call, while  *)
(* shelves are added and removed.                                          *)
(***************************************************************************)
MaxPks == 1         \* length of an explicit pks list

\* the view as the caller holds it
AsView(res) == [repo |-> res.repo, items |-> res.items]

\* the explicit pks lists
PkLists == UNION {[1..n -> 0..(MaxGraph - 1)] : n \in 0..MaxPks}

\* positional predicates: ShelfModel.length >= 30, ShelfModel.content.contains("ab")
LengthGe30 == [field |-> "length", func |-> "ge", other |-> PyNum(30)]
ContentHas == [field |-> "content", func |-> "contains", other |-> PyStr(<<1, 2>>)]
WhereArgs == {<<>>, <<LengthGe30>>, <<LengthGe30, ContentHas>>}

\* keyword filters, in the order the call gives them (the keys are distinct)
Keyword == {<<"length", PyNum(l)>> : l \in Lengths}
           \cup {<<"content", PyList(c)>> : c \in Contents}
WhereKwargs ==
    {<<>>} \cup {<<a>> : a \in Keyword}
    \cup {<<p[1], p[2]>> : p \in {q \in Keyword \X Keyword : q[1][1] # q[2][1]}}

\* the views handed to union: the held one and a new one of the repository
UnionArgs ==
    LET V == {cur, AsView(view("Shelf", RepoState, NonePks))}
    IN  {<<>>} \cup {<<a>> : a \in V} \cup {<<a, b>> : a \in V, b \in V}

\* cur = repo.view(pks)
View(r, pks) ==
    /\ LET res == view(r, RepoState, pks)
       IN  /\ cur' = IF res.exc = "ok" THEN AsView(res) ELSE cur
           /\ last' = [op |-> "view", obj |-> NoneRef, exc |-> res.exc]
    /\ UNCHANGED <<exists, fld, attrs, pk, items, removed, sess, reg>>

\* a variant of self_items in which the call narrows the receiver itself
self_items_narrowed(v, res) == IF res.exc = "ok" THEN res.items ELSE v.items

\* the receiver's _items after where, limit or union: each of them reads
\* self._items, works on lists of its own (the pks of all_pk(), a slice, a
\* comprehension) and hands them to a new MemoryView
self_items(v, res) == v.items

ViewCall(op, res, args, kwargs, n, views) ==
    /\ cur # NoCur
    /\ last' = [op |-> op, obj |-> NoneRef, exc |-> res.exc, recv |-> cur,
                res |-> AsView(res), args |-> args, kwargs |-> kwargs,
                n |-> n, views |-> views]
    /\ cur' = [cur EXCEPT !.items = self_items(cur, res)]
    /\ UNCHANGED <<exists, fld, attrs, pk, items, removed, sess, reg>>

\* cur.where(*args, **kwargs)
Where(args, kwargs) ==
    ViewCall("where", where(cur, RepoState, InstState, args, kwargs), args, kwargs, 0, <<>>)

\* cur.limit(n)
Limit(n) ==
    ViewCall("limit", limit(cur, RepoState, n), <<>>, <<>>, n, <<>>)

\* cur.where(*args).limit(n)
where_limit(v, rs, ist, args, n) ==
    LET w == where(v, rs, ist, args, <<>>)
    IN  IF w.exc # "ok" THEN w ELSE limit(AsView(w), rs, n)

WhereLimit(args, n) ==
    ViewCall("where_limit", where_limit(cur, RepoState, InstState, args, n),
             args, <<>>, n, <<>>)

\* cur.union(views)
Union(views) ==
    ViewCall("union", union(cur, RepoState, views), <<>>, <<>>, 0, views)

\* cur.first(), cur.last()
Ends(op, res) ==
    /\ cur # NoCur
    /\ last' = [op |-> op, obj |-> res.obj, exc |-> res.exc, recv |-> cur]
    /\ UNCHANGED <<exists, fld, attrs, pk, items, removed, sess, cur, reg>>

First == Ends("first", first(cur))

Last == Ends("last", last_(cur))

ViewOps == {"where", "limit", "union"}

\* the caller keeps the view the last call returned
Hold ==
    /\ last.op \in ViewOps /\ last.exc = "ok"
    /\ cur' = last.res
    /\ last' = [op |-> "hold", obj |-> NoneRef, exc |-> "ok"]
    /\ UNCHANGED <<exists, fld, attrs, pk, items, removed, sess, reg>>

ViewNext ==
    \/ \E o \in Graph("Shelf"), c \in Contents, l \in Lengths : NewShelf(o, c, l, NoPk)
    \/ \E o \in Graph("Shelf") : Add("Shelf", o)
    \/ \E o \in Graph("Shelf") : Remove("Shelf", o)
    \/ \E pks \in {NonePks} \cup {Pks(l) : l \in PkLists} : View("Shelf", pks)
    \/ \E args \in WhereArgs, kwargs \in WhereKwargs : Where(args, kwargs)
    \/ \E n \in 0..MaxPks : Limit(n)
    \/ \E args \in {<<>>, <<LengthGe30>>}, n \in 0..(MaxPks + 1) : WhereLimit(args, n)
    \/ \E views \in UnionArgs : Union(views)
    \/ First
    \/ Last
    \/ Hold

SpecView == InitInstances /\ [][ViewNext]_vars

\* the view's members are what the repository stores now under their pks
Current(v) ==
    \A i \in 1..Len(v.items) :
        /\ v.items[i] # NoneRef
        /\ pk[v.items[i]] # NoPk /\ pk[v.items[i]] < Len(items[v.repo])
        /\ items[v.repo][pk[v.items[i]] + 1] = v.items[i]

PksOf(v) == [i \in 1..Len(v.items) |-> pk[v.items[i]]]

RECURSIVE Flatten(_, _)
Flatten(views, i) ==
    IF i > Len(views) THEN <<>> ELSE PksOf(views[i]) \o Flatten(views, i + 1)

\* a sequence without the repeated occurrences of its elements
RECURSIVE FirstSeen(_, _, _)
FirstSeen(q, i, acc) ==
    IF i > Len(q) THEN acc
    ELSE FirstSeen(q, i + 1, IF InSeq(acc, q[i]) THEN acc ELSE Append(acc, q[i]))

\* C4: union(views) returns a view whose pk list holds every pk of self and of
\* the argument views, each once, in the order of first occurrence (self, then
\* the arguments in order), for any number of argument views.
C4_UnionFirstSeen ==
    (/\ last.op = "union"
     /\ Current(last.recv)
     /\ \A i \in 1..Len(last.views) : Current(last.views[i]))
    => /\ last.exc = "ok"
       /\ PksOf(last.res) = FirstSeen(PksOf(last.recv) \o Flatten(last.views, 1), 1, <<>>)

\* C11: for every view, every where filter and every n >= 0, the view that
\* where(...).limit(n) returns has a count of at most n.
C11_LimitBoundsCount ==
    (last.op = "where_limit" /\ last.exc = "ok") => count(last.res) <= last.n

\* a where(...).limit(n) whose where kept more than n >= 1 members
C11_Witness ==
    /\ last.op = "where_limit" /\ last.exc = "ok"
    /\ last.args # <<>> /\ last.n >= 1
    /\ count(where(last.recv, RepoState, InstState, last.args, <<>>)) > last.n
    /\ count(last.res) = last.n

C12_UnionNothing ==
    (last.op = "union" /\ last.views = <<>>)
    => /\ last.exc = "ok"
       /\ count(last.res) = count(last.recv)

\* C13: first() and last() on a view with no elements return None and do not
\* raise.
C13_EndsOfEmpty ==
    (last.op \in {"first", "last"} /\ count(last.recv) = 0)
    => /\ last.exc = "ok"
       /\ last.obj = NoneRef

\* C10: where(*predicates, **keywords) returns exactly the members of the view
\* that satisfy every positional predicate and every keyword filter, in the
\* order of the view; where() returns the same members.
C10_WhereIsConjunction ==
    (last.op = "where" /\ Current(last.recv))
    => /\ last.exc = "ok"
       /\ LET All(o) ==
                /\ \A i \in 1..Len(last.args) :
                        comparator_filter(last.args[i], InstState, o)
                /\ \A j \in 1..Len(last.kwargs) :
                        getattr_field(InstState, o, last.kwargs[j][1]) = last.kwargs[j][2]
          IN  last.res.items = SelectSeq(last.recv.items, All)
(***************************************************************************)
(* RepositoryBase.add_all (repository_base.py): add obj, then every model  *)
(* instance its dataclass fields hold, each to the repository of its class.*)
(***************************************************************************)
RECURSIVE add_all(_, _, _, _)
RECURSIVE AddAllList(_, _, _, _)
RECURSIVE AddAllFields(_, _, _, _)
\* for item in value: repo.add_all(item), repo the repository of value[0]
AddAllList(rs, ist, value, j) ==
    IF j > Len(value) \/ rs.exc # "ok" THEN rs
    ELSE The({AddAllList(rs1, ist, value, j + 1) :
                rs1 \in {add_all(ModelOf(value[1]), rs, ist, value[j])}})

\* for field in dataclasses.fields(obj): ...
AddAllFields(rs, ist, o, i) ==
    IF i > Len(Fields(ModelOf(o))) \/ rs.exc # "ok" THEN rs
    ELSE LET f == Fields(ModelOf(o))[i]
             value == ist.fld[o][f]
         IN  The({AddAllFields(rs1, ist, o, i + 1) :
                    rs1 \in {IF unwrapped_type(ModelOf(o), f) \notin Models THEN rs
                             ELSE IF relation(ModelOf(o), f) = "ONE_TO_MANY"
                                  THEN AddAllList(rs, ist, value, 1)
                             ELSE IF value # NoneRef
                                  THEN add_all(ModelOf(value), rs, ist, value)
                             ELSE rs}})

add_all(r, rs, ist, o) ==
    The({(IF a.exc # "ok" THEN a ELSE AddAllFields(a, ist, o, 1)) :
            a \in {add(r, rs, o)}})

(***************************************************************************)
(* The group classes (group.py): registration, navigation between a group  *)
(* and its sub- and super-group through the backend's relation views, and  *)
(* the recursive search.  A group is [repo, items]: the model of its class *)
(* and its view's items.                                                   *)
(***************************************************************************)
\* the value in a dict kept as a sequence of <<key, value>> in insertion order
HasKey(d, k) == \E i \in 1..Len(d) : d[i][1] = k
DictGet(d, k) == d[CHOOSE i \in 1..Len(d) : d[i][1] = k][2]

\* Group._register_subgroup: the key is the subgroup model's plural name
register_subgroup(rg, super_group, model_cls) ==
    IF HasKey(rg.subgroups[super_group], PLURAL_NAME(model_cls))
    THEN [rg |-> rg, exc |-> "RuntimeError"]
    ELSE [rg |-> [rg EXCEPT !.subgroups[super_group] =
                        Append(@, <<PLURAL_NAME(model_cls), model_cls>>)],
          exc |-> "ok"]

\* @subgroup_class(super_group, model_cls): group_class resets the new class,
\* then the class is registered with its super-group and the super-group
\* with it
subgroup_class(rg, super_group, model_cls) ==
    LET r == register_subgroup(rg, super_group, model_cls)
    IN  IF r.exc # "ok" THEN r
        ELSE [rg |-> [r.rg EXCEPT !.super[model_cls] = super_group,
                                  !.search_fields[model_cls] = <<>>],
              exc |-> "ok"]

\* Group._find_related_group_field_name
find_related_group_field_name(self_model, other_model, is_subgroup) ==
    LET own == {i \in 1..Len(Fields(self_model)) :
                    unwrapped_type(self_model, Fields(self_model)[i]) = other_model}
    IN  IF own # {}
        THEN Fields(self_model)[CHOOSE i \in own : \A j \in own : i <= j]
        ELSE IF is_subgroup THEN PLURAL_NAME(other_model)
        ELSE SINGULAR_NAME(other_model)

\* whether the attribute holds a list: a List[...] field, or a back-reference
\* of __backrefmodels_uselist__
IsListAttr(m, name) ==
    \/ IsField(m, name) /\ FieldType(m, name).list
    \/ ~IsField(m, name) /\ InMap(BACKREF_USELIST(m), name)

\* the getattr(model, field_name) calls of a relation view's loop over the
\* items that find the attribute: they go on until an item is None or has no
\* such attribute, or holds what the loop cannot use (going down an instance
\* or None, going up a list or None)
Reads(ist, its, field_name, up) ==
    {<<its[i], field_name>> : i \in {j \in 1..Len(its) :
        /\ \A k \in 1..j : its[k] # NoneRef /\ hasattr(its[k], field_name)
        /\ \A k \in 1..(j - 1) :
              IF up THEN /\ ~IsListAttr(ModelOf(its[k]), field_name)
                         /\ ReadVal(ist, its[k], field_name) # NoneRef
              ELSE IsListAttr(ModelOf(its[k]), field_name)}}

\* a variant that stores the default over whatever the instance holds
store_defaults_anew(at, reads) ==
    [o \in DOMAIN at |-> [name \in DOMAIN at[o] |->
        IF <<o, name>> \in reads
        THEN [set |-> TRUE,
              val |-> IF InMap(BACKREF(ModelOf(o)), name) THEN NoneRef ELSE <<>>]
        ELSE at[o][name]]]

\* what those reads leave on the instances: __getattr__ stores the default of
\* a back-reference that is not there yet
store_defaults(at, reads) ==
    [o \in DOMAIN at |-> [name \in DOMAIN at[o] |->
        IF <<o, name>> \in reads /\ ~at[o][name].set
        THEN [set |-> TRUE, val |-> at[o][name].val]
        ELSE at[o][name]]]

\* for model in view.all(): for submodel in getattr(model, field_name):
\*     if submodel.pk not in pks: pks.append(submodel.pk)
\* (an instance or None in place of the list is not iterable)
RECURSIVE SubmodelLoop(_, _, _, _, _, _)
SubmodelLoop(its, field_name, rs, ist, i, pks) ==
    IF i > Len(its) THEN [exc |-> "ok", pks |-> pks]
    ELSE IF its[i] = NoneRef \/ ~hasattr(its[i], field_name)
         THEN [exc |-> "AttributeError", pks |-> <<>>]
    ELSE IF ~IsListAttr(ModelOf(its[i]), field_name)
         THEN [exc |-> "TypeError", pks |-> <<>>]
    ELSE LET sub == ReadVal(ist, its[i], field_name)
         IN  SubmodelLoop(its, field_name, rs, ist, i + 1,
                          AppendNew(pks, [j \in 1..Len(sub) |-> rs.pk[sub[j]]], 1))

\* MemoryRepositoryBase.build_submodel_view
build_submodel_view(v, field_name, submodel_cls, rs, ist) ==
    LET l == SubmodelLoop(v.items, field_name, rs, ist, 1, <<>>)
    IN  IF l.exc # "ok" THEN ViewRaise(submodel_cls, l.exc)
        ELSE MemoryView(submodel_cls, rs, Pks(l.pks))

\* for model in view.all(): pks.append(getattr(model, field_name).pk)
\* (neither a list nor None has a pk)
RECURSIVE SupermodelLoop(_, _, _, _, _, _)
SupermodelLoop(its, field_name, rs, ist, i, pks) ==
    IF i > Len(its) THEN [exc |-> "ok", pks |-> pks]
    ELSE IF its[i] = NoneRef \/ ~hasattr(its[i], field_name)
         THEN [exc |-> "AttributeError", pks |-> <<>>]
    ELSE IF IsListAttr(ModelOf(its[i]), field_name)
         THEN [exc |-> "AttributeError", pks |-> <<>>]
    ELSE IF ReadVal(ist, its[i], field_name) = NoneRef
         THEN [exc |-> "AttributeError", pks |-> <<>>]
    ELSE SupermodelLoop(its, field_name, rs, ist, i + 1,
                        Append(pks, rs.pk[ReadVal(ist, its[i], field_name)]))

\* MemoryRepositoryBase.build_supermodel_view
build_supermodel_view(v, field_name, super_model_cls, rs, ist) ==
    LET l == SupermodelLoop(v.items, field_name, rs, ist, 1, <<>>)
    IN  IF l.exc # "ok" THEN ViewRaise(super_model_cls, l.exc)
        ELSE MemoryView(super_model_cls, rs, Pks(l.pks))

\* Group._build_subgroup(name): the group of the subgroup class over the
\* relation view, with the attribute reads made on the way
build_subgroup(g, name, rs, ist, rg) ==
    LET submodel_cls == DictGet(rg.subgroups[g.repo], name)
        field_name == find_related_group_field_name(g.repo, submodel_cls, TRUE)
        v == build_submodel_view(g, field_name, submodel_cls, rs, ist)
    IN  [exc |-> v.exc, repo |-> v.repo, items |-> v.items, field |-> field_name,
         reads |-> Reads(ist, g.items, field_name, FALSE)]

\* Group._build_super_group()
build_super_group(g, rs, ist, rg) ==
    LET super_model_cls == rg.super[g.repo]
        field_name == find_related_group_field_name(g.repo, super_model_cls, FALSE)
        v == build_supermodel_view(g, field_name, super_model_cls, rs, ist)
    IN  [exc |-> v.exc, repo |-> v.repo, items |-> v.items, field |-> field_name,
         reads |-> Reads(ist, g.items, field_name, TRUE)]

\* the result of a search is [exc, view, group, matching_pks, results,
\* subresults, reads]: the items of the searched group's view, the items of
\* the result group's, the accumulated pks and the attribute reads made

\* MemoryRepositoryBase.search(view, pattern, search_fields): per field, the
\* view of the members whose field contains the pattern and the dict of their
\* pks and values; matching_pks collects the keys of the dicts
RECURSIVE repo_search(_, _, _, _, _, _, _, _)
repo_search(v, pattern, fields, rs, ist, i, matching_pks, results) ==
    IF i > Len(fields)
    THEN [exc |-> "ok", matching_pks |-> matching_pks, results |-> results]
    ELSE IF ~IsField(v.repo, fields[i])
         THEN [exc |-> "RuntimeError", matching_pks |-> <<>>, results |-> <<>>]
    ELSE LET result_view ==
                where(v, rs, ist,
                      <<[field |-> fields[i], func |-> "contains",
                         other |-> PyStr(pattern)]>>, <<>>)
             keys == FirstSeen(PksOf(result_view), 1, <<>>)
         IN  IF result_view.exc # "ok"
             THEN [exc |-> result_view.exc, matching_pks |-> <<>>, results |-> <<>>]
             ELSE repo_search(v, pattern, fields, rs, ist, i + 1,
                              matching_pks \o keys,
                              Append(results, [field |-> fields[i],
                                               matches |-> keys,
                                               view |-> result_view.items]))

SearchRaised(e, g, reads) ==
    [exc |-> e, view |-> g.items, group |-> <<>>, matching_pks |-> <<>>,
     results |-> <<>>, subresults |-> <<>>, reads |-> reads]

RECURSIVE search(_, _, _, _, _)
RECURSIVE SubresultsLoop(_, _, _, _, _, _, _, _)
RECURSIVE SuperViews(_, _, _, _, _, _, _)


\* for field, subgroup in self._SUBGROUPS.items():
\*     subresults[field] = getattr(self, field).search(pattern)
SubresultsLoop(g, pattern, rs, ist, rg, i, subresults, reads) ==
    IF i > Len(rg.subgroups[g.repo])
    THEN [exc |-> "ok", subresults |-> subresults, reads |-> reads]
    ELSE The({(IF sub.exc # "ok"
               THEN [exc |-> sub.exc, subresults |-> <<>>,
                     reads |-> reads \cup sub.reads]
               ELSE The({(IF res.exc # "ok"
                          THEN [exc |-> res.exc, subresults |-> <<>>,
                                reads |-> reads \cup sub.reads \cup res.reads]
                          ELSE SubresultsLoop(g, pattern, rs, ist, rg, i + 1,
                                  Append(subresults,
                                         [field |-> rg.subgroups[g.repo][i][1],
                                          res |-> res]),
                                  reads \cup sub.reads \cup res.reads)) :
                        res \in {search(AsView(sub), pattern, rs, ist, rg)}})) :
            sub \in {build_subgroup(g, rg.subgroups[g.repo][i][1], rs, ist, rg)}})

\* (getattr(res.group, res.group._SUPER_GROUP_NAME)._view
\*  for res in subresults.values())
SuperViews(model, subresults, rs, ist, rg, i, acc) ==
    IF i > Len(subresults) THEN [exc |-> "ok", views |-> acc.views, reads |-> acc.reads]
    ELSE The({(IF up.exc # "ok"
               THEN [exc |-> up.exc, views |-> <<>>, reads |-> acc.reads \cup up.reads]
               ELSE SuperViews(model, subresults, rs, ist, rg, i + 1,
                               [views |-> Append(acc.views, AsView(up)),
                                reads |-> acc.reads \cup up.reads])) :
            up \in {build_super_group(
                        [repo |-> DictGet(rg.subgroups[model], subresults[i].field),
                         items |-> subresults[i].res.group], rs, ist, rg)}})

\* subresults_view = first_subview.union(subviews);
\* matching_pks += subresults_view.all_pk()
subresults_pks(views, rs) ==
    The({(IF subresults_view.exc # "ok"
          THEN [exc |-> subresults_view.exc, pks |-> <<>>]
          ELSE all_pk(subresults_view, rs)) :
         subresults_view \in {union(views[1], rs, Tail(views))}})

\* the end of Group.search: the repository's search of the group's own
\* fields, and the group over the view of all the matching pks
search_own(g, pattern, rs, ist, rg, subresults, sub_pks, reads) ==
    The({(IF sr.exc # "ok" THEN SearchRaised(sr.exc, g, reads)
          ELSE The({(IF matching_pks_view.exc # "ok"
                     THEN SearchRaised(matching_pks_view.exc, g, reads)
                     ELSE [exc |-> "ok", view |-> g.items,
                           group |-> matching_pks_view.items,
                           matching_pks |-> sub_pks \o sr.matching_pks,
                           results |-> sr.results, subresults |-> subresults,
                           reads |-> reads]) :
                   matching_pks_view \in
                        {view(g.repo, rs, Pks(sub_pks \o sr.matching_pks))}})) :
         sr \in {repo_search(g, pattern, rg.search_fields[g.repo], rs, ist,
                             1, <<>>, <<>>)}})

\* what Group.search does with the subresults sl
search_up(g, pattern, rs, ist, rg, sl) ==
    IF sl.exc # "ok" THEN SearchRaised(sl.exc, g, sl.reads)
    ELSE IF sl.subresults = <<>>
         THEN search_own(g, pattern, rs, ist, rg, <<>>, <<>>, sl.reads)
    ELSE The({(IF sv.exc # "ok" THEN SearchRaised(sv.exc, g, sv.reads)
               ELSE The({(IF sp.exc # "ok" THEN SearchRaised(sp.exc, g, sv.reads)
                          ELSE search_own(g, pattern, rs, ist, rg,
                                          sl.subresults, sp.pks, sv.reads)) :
                        sp \in {subresults_pks(sv.views, rs)}})) :
            sv \in {SuperViews(g.repo, sl.subresults, rs, ist, rg, 1,
                              [views |-> <<>>, reads |-> sl.reads])}})

\* Group.search(pattern)
search(g, pattern, rs, ist, rg) ==
    The({search_up(g, pattern, rs, ist, rg, sl) :
         sl \in {SubresultsLoop(g, pattern, rs, ist, rg, 1, <<>>, {})}})

(***************************************************************************)
(* SpecGroup: houses, shelves and kitchens are constructed and stored with *)
(* add_all, DenGroup is declared, and the caller holds a group (cur):      *)
(* opens one, navigates to its sub- or super-group, narrows it and         *)
(* searches it.                                                            *)
(***************************************************************************)
MaxHouses == 1      \* houses in the group hierarchy

\* the lists of constructed shelves a kitchen is given: none of them, or all
ShelfLists ==
    LET n == Cardinality(exists \cap Graph("Shelf"))
    IN  {[i \in 1..k |-> <<"Shelf", i>>] : k \in {0, n}}

\* @subgroup_class(super_group, model_cls) on a new class
SubgroupClass(super_group, model_cls) ==
    /\ LET r == subgroup_class(reg, super_group, model_cls)
       IN  /\ reg' = r.rg
           /\ last' = [op |-> "subgroup_class", obj |-> NoneRef, exc |-> r.exc]
    /\ UNCHANGED <<exists, fld, attrs, pk, items, removed, sess, cur>>

\* cur = GroupClass(context), the group class of model m
OpenGroup(m) ==
    /\ cur' = AsView(view(m, RepoState, NonePks))
    /\ last' = [op |-> "group", obj |-> NoneRef, exc |-> "ok"]
    /\ UNCHANGED <<exists, fld, attrs, pk, items, removed, sess, reg>>

Navigate(op, res) ==
    /\ cur' = IF res.exc = "ok" THEN AsView(res) ELSE cur
    /\ attrs' = store_defaults(attrs, res.reads)
    /\ last' = [op |-> op, obj |-> NoneRef, exc |-> res.exc, recv |-> cur,
                res |-> AsView(res), field |-> res.field]
    /\ UNCHANGED <<exists, fld, pk, items, removed, sess, reg>>

\* cur = cur.<name>, name a key of the subgroups of cur's class
GoSub(name) ==
    /\ cur # NoCur
    /\ HasKey(reg.subgroups[cur.repo], name)
    /\ Navigate("sub", build_subgroup(cur, name, RepoState, InstState, reg))

\* cur = cur.<_SUPER_GROUP_NAME>
GoSuper ==
    /\ cur # NoCur
    /\ reg.super[cur.repo] # "None"
    /\ Navigate("super", build_super_group(cur, RepoState, InstState, reg))

Narrow(op, res, args, n) ==
    /\ cur # NoCur
    /\ cur' = IF res.exc = "ok" THEN AsView(res) ELSE cur
    /\ last' = [op |-> op, obj |-> NoneRef, exc |-> res.exc, recv |-> cur,
                res |-> AsView(res), args |-> args, kwargs |-> <<>>, n |-> n]
    /\ UNCHANGED <<exists, fld, attrs, pk, items, removed, sess, reg>>

\* cur = cur.where(*args)
GroupWhere(args) ==
    Narrow("gwhere", where(cur, RepoState, InstState, args, <<>>), args, 0)

\* cur = cur.limit(n)
GroupLimit(n) ==
    Narrow("glimit", limit(cur, RepoState, n), <<>>, n)

\* cur.search(pattern)
Search(pattern) ==
    /\ cur # NoCur
    /\ \E res \in {search(cur, pattern, RepoState, InstState, reg)} :
           /\ attrs' = store_defaults(attrs, res.reads)
           /\ last' = [op |-> "search", obj |-> NoneRef, exc |-> res.exc,
                       recv |-> cur, pattern |-> pattern, res |-> res,
                       again |-> last.op = "search" /\ last.pattern = pattern]
    /\ UNCHANGED <<exists, fld, pk, items, removed, sess, cur, reg>>

\* repository_cls(context).add_all(Model(**args)): an instance is constructed
\* and stored with what it refers to (the _add helper of tests/test_groups.py)
NewAddAll(o, args) ==
    /\ NextFree(o)
    /\ exists' = exists \cup {o}
    /\ \E ist \in {construct(InstState, o, args)} :
       \E rs \in {add_all(ModelOf(o), RepoState, ist, o)} :
           /\ fld' = ist.fld /\ attrs' = ist.attrs
           /\ items' = rs.items /\ pk' = rs.pk
           /\ last' = [op |-> "add_all", obj |-> o, exc |-> rs.exc]
    /\ UNCHANGED <<removed, sess, cur, reg>>

\* the repositories are filled before a group is opened
GroupNext ==
    \/ /\ cur = NoCur
       /\ \/ \E o \in {h \in Graph("House") : h[2] <= MaxHouses}, w \in Words :
                NewAddAll(o, [NoFields EXCEPT !.address = w])
          \/ \E o \in Graph("Shelf"), c \in Contents :
                NewAddAll(o, [NoFields EXCEPT !.content = c, !.length = 30])
          \/ \E o \in Graph("Kitchen"), h \in HouseArgs, l \in ShelfLists :
                NewAddAll(o, [NoFields EXCEPT !.house = h, !.shelves = l])
    \/ SubgroupClass("House", "Den")
    \/ \E m \in {"House", "Kitchen", "Shelf"} : OpenGroup(m)
    \/ \E name \in {"kitchens", "shelves", "dens"} : GoSub(name)
    \/ GoSuper
    \/ cur.repo = "Shelf" /\ GroupWhere(<<LengthGe30>>)
    \/ GroupLimit(1)
    \/ \E pattern \in Words : Search(pattern)

SpecGroup == InitInstances /\ [][GroupNext]_vars

(***************************************************************************)
(* SpecAddAll: instances are constructed, with or without an explicit pk,  *)
(* and stored with `with repo.uow(): repo.add_all(obj)` on the in-memory   *)
(* backend.                                                                *)
(***************************************************************************)
\* MemoryRepositoryBase.uow is a context manager that only yields: an
\* exception of the body passes through it and nothing is undone.  before is
\* the repositories' state at entry, body the outcome of the body.
memory_uow(before, body) == body

\* with repo.uow(): repo.add_all(o)
UowAddAll(o) ==
    /\ o \in exists
    /\ \E rs \in {memory_uow(RepoState, add_all(ModelOf(o), RepoState, InstState, o))} :
           /\ items' = rs.items /\ pk' = rs.pk
           /\ last' = [op |-> "uow_add_all", obj |-> o, exc |-> rs.exc]
    /\ UNCHANGED <<exists, fld, attrs, removed, sess, cur, reg>>

AddAllNext ==
    \/ \E p \in PkArgs : NewHouse(<<"House", 1>>, <<1>>, p)
    \/ \E o \in Graph("Shelf"), p \in PkArgs : NewShelf(o, <<>>, 30, p)
    \/ \E h \in HouseArgs, l \in ShelfLists, p \in PkArgs :
            NewKitchen(<<"Kitchen", 1>>, h, l, p)
    \/ \E o \in Instances : UowAddAll(o)

SpecAddAll == InitInstances /\ [][AddAllNext]_vars

\* the model instances the fields of o hold
RefsOf(f, o) ==
    UNION {IF FieldType(ModelOf(o), name).of \notin Models THEN {}
           ELSE IF FieldType(ModelOf(o), name).list THEN SeqRange(f[o][name])
           ELSE {f[o][name]} \ {NoneRef} :
           name \in {n \in {"house", "shelves"} : IsField(ModelOf(o), n)}}

\* o and what add_all(o) goes through
GraphOf(f, o) ==
    {o} \cup RefsOf(f, o) \cup UNION {RefsOf(f, x) : x \in RefsOf(f, o)}

StoredIn(its, o) == \E i \in 1..Len(its[ModelOf(o)]) : its[ModelOf(o)][i] = o

\* C17: when add_all of an instance graph fails partway inside a unit of work,
\* no instance of the graph that the call stored is stored after the unit of
\* work is left.
C17_FailedAddAllStoresNothing ==
    [][(last'.op = "uow_add_all" /\ last'.exc # "ok")
       => \A g \in GraphOf(fld', last'.obj) : StoredIn(items', g) => StoredIn(items, g)]_vars

(***************************************************************************)
(* SpecGetattr: houses, dens, shelves and kitchens are constructed and     *)
(* their attributes read with getattr(obj, name): ModelBase.__getattr__    *)
(* (model_base.py) runs for a name the instance's __dict__ does not hold.  *)
(***************************************************************************)
\* a variant of getattr that hands the default out and stores nothing
getattr_unstored(ist, o, name) ==
    IF IsField(ModelOf(o), name)
    THEN [exc |-> "ok", val |-> ist.fld[o][name], ist |-> ist]
    ELSE IF name \in DOMAIN NoAttrs /\ ist.attrs[o][name].set
    THEN [exc |-> "ok", val |-> ist.attrs[o][name].val, ist |-> ist]
    ELSE IF InMap(BACKREF(ModelOf(o)), name)
    THEN [exc |-> "ok", val |-> NoneRef, ist |-> ist]
    ELSE IF InMap(BACKREF_USELIST(ModelOf(o)), name)
    THEN [exc |-> "ok", val |-> <<>>, ist |-> ist]
    ELSE [exc |-> "AttributeError", val |-> NoneRef, ist |-> ist]

\* getattr(o, name): the field, or what __dict__ holds; else __getattr__: None
\* for a name in __backrefmodels__, a new list for one in
\* __backrefmodels_uselist__, either stored in __dict__ before it is returned;
\* else AttributeError
getattr(ist, o, name) ==
    IF IsField(ModelOf(o), name)
    THEN [exc |-> "ok", val |-> ist.fld[o][name], ist |-> ist]
    ELSE IF name \in DOMAIN NoAttrs /\ ist.attrs[o][name].set
    THEN [exc |-> "ok", val |-> ist.attrs[o][name].val, ist |-> ist]
    ELSE IF InMap(BACKREF(ModelOf(o)), name)
    THEN [exc |-> "ok", val |-> NoneRef, ist |-> Store(ist, o, name, NoneRef)]
    ELSE IF InMap(BACKREF_USELIST(ModelOf(o)), name)
    THEN [exc |-> "ok", val |-> <<>>, ist |-> Store(ist, o, name, <<>>)]
    ELSE [exc |-> "AttributeError", val |-> NoneRef, ist |-> ist]

AttrNames == {"kitchens", "dens", "kitchen", "house", "books"}

\* getattr(o, name) on a constructed instance
GetAttr(o, name) ==
    /\ o \in exists
    /\ \E r \in {getattr(InstState, o, name)} :
           /\ fld' = r.ist.fld /\ attrs' = r.ist.attrs
           /\ last' = [op |-> "getattr", obj |-> o, exc |-> r.exc,
                       name |-> name, val |-> r.val]
    /\ UNCHANGED <<exists, pk, items, removed, sess, cur, reg>>

GetattrNext ==
    \/ NewHouse(<<"House", 1>>, <<1>>, NoPk)
    \/ \E o \in Graph("Den"), h \in HouseArgs : NewDen(o, h, NoPk)
    \/ \E o \in Graph("Shelf") : NewShelf(o, <<>>, 30, NoPk)
    \/ \E h \in HouseArgs, l \in ShelfLists : NewKitchen(<<"Kitchen", 1>>, h, l, NoPk)
    \/ \E o \in Instances, name \in AttrNames : GetAttr(o, name)

SpecGetattr == InitInstances /\ [][GetattrNext]_vars

\* the collection back-references of class m: the plural names of the classes
\* with a MANY_TO_ONE field to m; the singular ones: the singular names of the
\* classes with a ONE_TO_MANY field of m
CollectionBackref(m, name) ==
    \E p \in ModelFields :
        /\ FieldType(p[1], p[2]) = [list |-> FALSE, of |-> m]
        /\ name = PLURAL_NAME(p[1])

SingularBackref(m, name) ==
    \E p \in ModelFields :
        /\ FieldType(p[1], p[2]) = [list |-> TRUE, of |-> m]
        /\ name = SINGULAR_NAME(p[1])

\* C20: reading a back-reference attribute never raises; one that was never
\* assigned reads as an empty list (collection) or None (singular), the
\* default is stored on the instance at that first read, and a later read
\* returns what is stored, with the elements appended since.
C20_BackrefReadStores ==
    [][(/\ last'.op = "getattr"
        /\ \/ CollectionBackref(ModelOf(last'.obj), last'.name)
           \/ SingularBackref(ModelOf(last'.obj), last'.name))
       => /\ last'.exc = "ok"
          /\ attrs'[last'.obj][last'.name] = [set |-> TRUE, val |-> last'.val]
          /\ IF attrs[last'.obj][last'.name].set
             THEN last'.val = attrs[last'.obj][last'.name].val /\ attrs' = attrs
             ELSE last'.val = IF CollectionBackref(ModelOf(last'.obj), last'.name)
                              THEN <<>> ELSE NoneRef]_vars

\* a house's dens read after a den was constructed for the house: the list
\* the instance holds has the den
C20_Witness ==
    /\ last.op = "getattr" /\ last.name = "dens" /\ last.exc = "ok"
    /\ last.val # <<>>
    /\ \E d \in exists \cap Inst("Den") : fld[d].house = last.obj /\ InSeq(last.val, d)

\* the instances the members of v refer to through field_name
Related(v, field_name, up) ==
    IF up THEN {ReadVal(InstState, v.items[i], field_name) : i \in 1..Len(v.items)}
    ELSE UNION {SeqRange(ReadVal(InstState, v.items[i], field_name)) :
                    i \in 1..Len(v.items)}

\* C6: navigating from a group to its subgroup or super-group yields a view
\* that holds each related instance reachable from the current view exactly
\* once, so that its count is the number of distinct reachable instances
\* (descending to the shelves of one kitchen and ascending again counts 1).
C6_NavigationDistinct ==
    (last.op \in {"sub", "super"} /\ last.exc = "ok")
    => /\ NoDuplicates(last.res.items)
       /\ SeqRange(last.res.items) = Related(last.recv, last.field, last.op = "super")
       /\ count(last.res) = Cardinality(Related(last.recv, last.field, last.op = "super"))

RECURSIVE NoRepeats(_)
NoRepeats(res) ==
    /\ NoDuplicates(res.matching_pks)
    /\ NoDuplicates(res.group)
    /\ \A i \in 1..Len(res.subresults) : NoRepeats(res.subresults[i].res)

\* C7: the matching pks a search accumulates (those derived from the
\* subgroups, then those matched on the group's own search fields) hold no pk
\* twice, and no instance is twice in the result group.
C7_NoRepeatedMatches ==
    (last.op = "search" /\ last.exc = "ok") => NoRepeats(last.res)

\* C8: the members of the group a search returns are members of the searched
\* group's view.
C8_SearchWithinView ==
    (last.op = "search" /\ last.exc = "ok")
    => SeqRange(last.res.group) \subseteq SeqRange(last.recv.items)

\* the pattern is a substring of the field's value, or of one of the elements
\* of a list of str
FieldHas(o, f, pattern) ==
    IF FieldType(ModelOf(o), f).list
    THEN \E i \in 1..Len(fld[o][f]) : IsSubstring(pattern, fld[o][f][i])
    ELSE IsSubstring(pattern, fld[o][f])

\* o matches: in one of the search fields of its group, or it owns, through
\* a subgroup relation, an instance that matches
RECURSIVE Matches(_, _)
Matches(o, pattern) ==
    \/ \E i \in 1..Len(reg.search_fields[ModelOf(o)]) :
            FieldHas(o, reg.search_fields[ModelOf(o)][i], pattern)
    \/ \E k \in 1..Len(reg.subgroups[ModelOf(o)]) :
            \E x \in SeqRange(ReadVal(InstState, o,
                        find_related_group_field_name(
                            ModelOf(o), reg.subgroups[ModelOf(o)][k][2], TRUE))) :
                Matches(x, pattern)

RECURSIVE Exact(_, _, _)
Exact(m, res, pattern) ==
    /\ res.exc = "ok"
    /\ SeqRange(res.group) = {o \in SeqRange(res.view) : Matches(o, pattern)}
    /\ Len(res.subresults) = Len(reg.subgroups[m])
    /\ \A k \in 1..Len(res.subresults) :
            /\ res.subresults[k].field = reg.subgroups[m][k][1]
            /\ Exact(reg.subgroups[m][k][2], res.subresults[k].res, pattern)
    /\ (\A o \in SeqRange(res.view) : ~Matches(o, pattern))
            => /\ res.group = <<>>
               /\ \A i \in 1..Len(res.results) : res.results[i].matches = <<>>

\* C5: search(pattern) returns a result whose group holds exactly the members
\* of the group's view that contain the pattern in one of the search fields or
\* own an instance of the result group of a searched subgroup, with one
\* subresult per subgroup, at every level; when nothing matches, every
\* result group is empty and every per-field matches map is empty.
C5_SearchExact ==
    last.op = "search" => Exact(last.recv.repo, last.res, last.pattern)

\* C9: a search changes no repository, view or group state (the stored
\* instances keep their fields and the values of their back-references), and
\* a second search of the same group with the same pattern right after the
\* first gives the same result at every level.
C9_SearchIdempotent ==
    [][(last'.op = "search" /\ last' # last) =>
        /\ items' = items /\ pk' = pk /\ fld' = fld /\ exists' = exists
        /\ cur' = cur /\ reg' = reg
        /\ \A o \in Instances : \A name \in DOMAIN attrs[o] :
                attrs'[o][name].val = attrs[o][name].val
        /\ (last.op = "search" /\ last.pattern = last'.pattern /\ last.recv = last'.recv)
                => last'.res = last.res]_vars

\* a group with members was searched twice: the searches went down to a
\* subgroup, read back-references and found a member
C9_Witness ==
    /\ last.op = "search" /\ last.again /\ last.exc = "ok"
    /\ last.res.group # <<>>
    /\ last.res.subresults # <<>>
    /\ last.res.reads # {}

(***************************************************************************)
(* SpecNav: the group classes of House, Kitchen and Den are declared, one  *)
(* class per model, each as a root group or as a subgroup of any class     *)
(* declared before it; instances are stored, a group is opened and the     *)
(* caller navigates to its sub- and super-groups.                          *)
(***************************************************************************)
\* no group class is declared yet
NoGroupClasses ==
    [subgroups |-> [m \in Models |-> <<>>],
     super |-> [m \in Models |-> "Undeclared"],
     search_fields |-> [m \in Models |-> <<>>]]

InitNav ==
    /\ exists = {}
    /\ fld = [o \in Instances |-> NoFields]
    /\ attrs = [o \in Instances |-> NoAttrs]
    /\ pk = [o \in Instances |-> NoPk]
    /\ items = [m \in Models |-> <<>>]
    /\ removed = {}
    /\ last = NoLast
    /\ sess = NoSession
    /\ cur = NoCur
    /\ reg = NoGroupClasses

\* group_class(model_cls).wrap: an empty subgroup map, no super-group name
\* and an empty search allow-list
group_class(rg, model_cls) ==
    [rg EXCEPT !.subgroups[model_cls] = <<>>,
               !.super[model_cls] = "None",
               !.search_fields[model_cls] = <<>>]

\* @group_class(model_cls) on a new class
GroupClass(model_cls) ==
    /\ reg.super[model_cls] = "Undeclared"
    /\ reg' = group_class(reg, model_cls)
    /\ last' = [op |-> "group_class", obj |-> NoneRef, exc |-> "ok"]
    /\ UNCHANGED <<exists, fld, attrs, pk, items, removed, sess, cur>>

NavModels == {"House", "Kitchen", "Den"}

NavNext ==
    \/ /\ cur = NoCur
       /\ \/ NewAddAll(<<"House", 1>>, [NoFields EXCEPT !.address = <<1>>])
          \/ \E h \in HouseArgs :
                NewAddAll(<<"Kitchen", 1>>, [NoFields EXCEPT !.house = h])
          \/ \E h \in HouseArgs :
                NewAddAll(<<"Den", 1>>, [NoFields EXCEPT !.house = h])
    \/ \E m \in NavModels : GroupClass(m)
    \/ \E s \in NavModels, m \in NavModels :
          /\ reg.super[s] # "Undeclared"
          /\ reg.super[m] = "Undeclared"
          /\ SubgroupClass(s, m)
    \/ \E m \in NavModels : reg.super[m] # "Undeclared" /\ OpenGroup(m)
    \/ \E name \in {"houses", "kitchens", "dens"} : GoSub(name)
    \/ GoSuper

SpecNav == InitNav /\ [][NavNext]_vars

\* the fields of model a whose resolved type is model b
FieldsTo(a, b) ==
    {i \in 1..Len(Fields(a)) : unwrapped_type(a, Fields(a)[i]) = b}

\* a relation between the two models is declared on neither side
Unrelated(a, b) == FieldsTo(a, b) = {} /\ FieldsTo(b, a) = {}

\* C21: navigating from a group to a sub- or super-group whose model has no
\* relation, declared on either side, with the current group's model raises
\* an error at navigation time: the call does not return a group.
C21_UnrelatedNavigationRaises ==
    (last.op \in {"sub", "super"} /\ Unrelated(last.recv.repo, last.res.repo))
    => last.exc # "ok"

\* a relation between the two models is declared on exactly one side
OneSided(a, b) == (FieldsTo(a, b) = {}) # (FieldsTo(b, a) = {})

\* C24: the relation field name of a navigation is the first field of the
\* current group's model whose resolved type is the other group's model, if
\* there is one; otherwise the other model's plural name going down and its
\* singular name going up; and when the relation is declared on exactly one
\* side, that name is an attribute of the current model's instances.
C24_RelationFieldName ==
    (last.op \in {"sub", "super"})
    => LET self == last.recv.repo
           other == last.res.repo
           own == FieldsTo(self, other)
       IN  /\ own # {} =>
                last.field = Fields(self)[CHOOSE i \in own : \A j \in own : i <= j]
           /\ (own = {} /\ last.op = "sub") => last.field = PLURAL_NAME(other)
           /\ (own = {} /\ last.op = "super") => last.field = SINGULAR_NAME(other)
           /\ OneSided(self, other) => hasattr(<<self, 1>>, last.field)

(***************************************************************************)
(* SpecSearchFields: the group classes of House and Kitchen are declared,  *)
(* one class per model, @search_fields is applied to them, and the caller  *)
(* stores instances, opens a group and searches it.                        *)
(***************************************************************************)
MaxNames == 2       \* names given to one search_fields

\* for field in fields: a name that is no field of the model raises, the
\* names before it are appended already
RECURSIVE SearchFieldsLoop(_, _, _, _)
SearchFieldsLoop(rg, cls, fields, i) ==
    IF i > Len(fields) THEN [rg |-> rg, exc |-> "ok"]
    ELSE IF ~IsField(cls, fields[i]) THEN [rg |-> rg, exc |-> "RuntimeError"]
    ELSE SearchFieldsLoop([rg EXCEPT !.search_fields[cls] = Append(@, fields[i])],
                          cls, fields, i + 1)

\* a variant that leaves out the names that are no fields of the model
search_fields_lenient(rg, cls, fields) ==
    IF rg.super[cls] = "Undeclared" THEN [rg |-> rg, exc |-> "RuntimeError"]
    ELSE [rg |-> [rg EXCEPT !.search_fields[cls] =
                      @ \o SelectSeq(fields, LAMBDA f : IsField(cls, f))],
          exc |-> "ok"]

\* search_fields(*fields).wrap on the group class of model cls: a class
\* without _MODEL_CLS is refused
search_fields(rg, cls, fields) ==
    IF rg.super[cls] = "Undeclared" THEN [rg |-> rg, exc |-> "RuntimeError"]
    ELSE SearchFieldsLoop(rg, cls, fields, 1)

\* the names given: the str field of House, and a field of neither model
SearchNames == {"address", "content"}
NameLists == UNION {[1..n -> SearchNames] : n \in 0..MaxNames}

\* @search_fields(*fields) on the group class of model cls
SearchFields(cls, fields) ==
    /\ Len(reg.search_fields[cls]) + Len(fields) <= MaxNames
    /\ \E r \in {search_fields(reg, cls, fields)} :
           /\ reg' = r.rg
           /\ last' = [op |-> "search_fields", obj |-> NoneRef, exc |-> r.exc,
                       cls |-> cls, fields |-> fields,
                       before |-> reg.search_fields[cls]]
    /\ UNCHANGED <<exists, fld, attrs, pk, items, removed, sess, cur>>

SearchFieldsModels == {"House", "Kitchen"}

SearchFieldsNext ==
    \/ /\ cur = NoCur
       /\ \/ NewAddAll(<<"House", 1>>, [NoFields EXCEPT !.address = <<1, 2>>])
          \/ \E h \in HouseArgs :
                NewAddAll(<<"Kitchen", 1>>, [NoFields EXCEPT !.house = h])
    \/ \E m \in SearchFieldsModels : GroupClass(m)
    \/ \E s \in SearchFieldsModels, m \in SearchFieldsModels :
          /\ reg.super[s] # "Undeclared"
          /\ reg.super[m] = "Undeclared"
          /\ SubgroupClass(s, m)
    \/ \E m \in SearchFieldsModels, fields \in NameLists : SearchFields(m, fields)
    \/ \E m \in SearchFieldsModels : reg.super[m] # "Undeclared" /\ OpenGroup(m)
    \/ \E pattern \in Words : Search(pattern)

SpecSearchFields == InitNav /\ [][SearchFieldsNext]_vars

\* the fields a search result reports on
InspectedFields(res) == {res.results[i].field : i \in 1..Len(res.results)}

C29_FailedSearchFieldsNoEffect ==
    [][(last'.op = "search_fields" /\ last'.exc # "ok")
       => (reg'.search_fields = reg.search_fields /\ reg'.subgroups = reg.subgroups)]_vars

(***************************************************************************)
(* SpecCompile: @rubedo_model compiles a model definition whose fields     *)
(* have scalar types, model types, List[...] and Tuple[...] types, with    *)
(* MemoryBackend or with SqlSorceryBackend.                                *)
(***************************************************************************)
MaxAnnotations == 2 \* fields of a compiled definition

\* the keys of _SQLALCHEMY_TYPES
SqlScalars == {"bool", "bytes", "int", "float", "str", "datetime"}

\* an annotation is [origin, of]: a class (origin "none"), List[of] or
\* Tuple[of].  Color is an enum.Enum subclass, complex a class that is
\* neither a scalar of the backends nor a model, House a compiled model
Annotations ==
    {[origin |-> "none", of |-> c] : c \in SqlScalars \cup {"Color", "complex", "House"}}
    \cup {[origin |-> o, of |-> c] : o \in {"List"}, c \in {"int", "House"}}
    \cup {[origin |-> "Tuple", of |-> "House"]}

AnnotatedDefinitions == UNION {[1..n -> Annotations] : n \in 1..MaxAnnotations}

\* EnhancedFieldBase.parse of a field without modifiers: List[...] is a
\* ONE_TO_MANY relation to its argument, a model class a MANY_TO_ONE relation
parse_annotation(t) ==
    IF t.origin = "List"
    THEN [relation |-> "ONE_TO_MANY", unwrapped_type |-> [origin |-> "none", of |-> t.of]]
    ELSE IF t.origin = "none" /\ t.of \in Models
    THEN [relation |-> "MANY_TO_ONE", unwrapped_type |-> t]
    ELSE [relation |-> "NONE", unwrapped_type |-> t]

\* the loop of rubedo_model._wrap over the fields:
\* issubclass(field_type, ModelBase) raises TypeError when the unwrapped type
\* is not a class
wrap_fields(d) ==
    IF \E i \in 1..Len(d) : parse_annotation(d[i]).unwrapped_type.origin # "none"
    THEN "TypeError" ELSE "ok"

\* SqlSorceryBackend._parse_simple_cell_type
parse_simple_cell_type(t) ==
    IF t.of \notin SqlScalars /\ t.of # "Color" THEN "TypeError" ELSE "ok"

\* SqlSorceryBackend._parse_relation: a list of a simple cell type becomes an
\* anonymous table, a relation to a model needs the model's table
parse_relation(r) ==
    IF r.relation = "ONE_TO_MANY" /\ parse_simple_cell_type(r.unwrapped_type) = "ok"
    THEN "ok"
    ELSE IF r.unwrapped_type.of \in Models THEN "ok"
    ELSE "TypeError"

\* SqlSorceryBackend.create_repository: a default pk column, then a relation
\* or a simple cell for every field
sql_parse_fields(d) ==
    IF \E i \in 1..Len(d) :
          LET r == parse_annotation(d[i])
          IN  IF r.relation # "NONE" THEN parse_relation(r) # "ok"
              ELSE parse_simple_cell_type(r.unwrapped_type) # "ok"
    THEN "TypeError" ELSE "ok"

\* MemoryBackend.create_repository: a pk and a MemoryField per field, whatever
\* the type of the field
memory_parse_fields(d) == "ok"

\* rubedo_model(...)._wrap(cls)
wrap(backend, d) ==
    IF wrap_fields(d) # "ok" THEN wrap_fields(d)
    ELSE IF backend = "MemoryBackend" THEN memory_parse_fields(d)
    ELSE sql_parse_fields(d)

\* @rubedo_model(pluralname, singularname, backend) on a class with the
\* annotations d
RubedoModel(backend, d) ==
    /\ last = NoLast
    /\ last' = [op |-> "rubedo_model", obj |-> NoneRef, exc |-> wrap(backend, d),
                backend |-> backend, d |-> d,
                compiled |-> wrap(backend, d) = "ok"]
    /\ UNCHANGED <<exists, fld, attrs, pk, items, removed, sess, cur, reg>>

CompileNext == \E backend \in Backends, d \in AnnotatedDefinitions : RubedoModel(backend, d)

SpecCompile == InitInstances /\ [][CompileNext]_vars

\* the resolved type of the field is no supported scalar and the field
\* carries no relation kind
Unsupported(t) ==
    /\ parse_annotation(t).relation = "NONE"
    /\ ~(t.origin = "none" /\ t.of \in SqlScalars \cup {"Color"})

\* C23: compiling a definition with a field whose resolved type is neither a
\* supported scalar nor carries a relation kind fails with a type error and
\* yields no compiled model.
C23_UnsupportedTypeFails ==
    (last.op = "rubedo_model" /\ \E i \in 1..Len(last.d) : Unsupported(last.d[i]))
    => (last.exc = "TypeError" /\ ~last.compiled)

(***************************************************************************)
(* SpecClasses: @group_class and @subgroup_class are applied to Group      *)
(* subclasses A, B and C in any order, a class any number of times.  Here  *)
(* reg.cls[c] holds the class attributes of c (model "None": the class has *)
(* no _MODEL_CLS yet; super "None": no _SUPER_GROUP) and reg.supermodels   *)
(* the __supermodels__ list of each model.                                 *)
(***************************************************************************)
MaxSuperModels == 2 \* subgroup_class calls per model

Classes == {"A", "B", "C"}
ClassModels == {"Kitchen", "Den"}

\* a subclass of Group no decorator was applied to
BareClass ==
    [model |-> "None", subgroups |-> <<>>, super |-> "None",
     super_name |-> "None", search_fields |-> <<>>]

InitClasses ==
    /\ exists = {}
    /\ fld = [o \in Instances |-> NoFields]
    /\ attrs = [o \in Instances |-> NoAttrs]
    /\ pk = [o \in Instances |-> NoPk]
    /\ items = [m \in Models |-> <<>>]
    /\ removed = {}
    /\ last = NoLast
    /\ sess = NoSession
    /\ cur = NoCur
    /\ reg = [cls |-> [c \in Classes |-> BareClass],
              supermodels |-> [m \in Models |-> <<>>]]

\* group_class(model_cls).wrap(_cls): _SUPER_GROUP is not touched
group_class_wrap(rg, c, model_cls) ==
    [rg EXCEPT !.cls[c].subgroups = <<>>,
               !.cls[c].super_name = "None",
               !.cls[c].model = model_cls,
               !.cls[c].search_fields = <<>>]

\* cls._register_subgroup(subgroup_cls) on the class super_group
Group_register_subgroup(rg, super_group, subgroup_cls) ==
    LET key == PLURAL_NAME(rg.cls[subgroup_cls].model)
    IN  IF HasKey(rg.cls[super_group].subgroups, key)
        THEN [rg |-> rg, exc |-> "RuntimeError"]
        ELSE [rg |-> [rg EXCEPT !.cls[super_group].subgroups =
                            Append(@, <<key, subgroup_cls>>)],
              exc |-> "ok"]

\* cls._register_super_group(super_group_cls) on the class c
Group_register_super_group(rg, c, super_group_cls) ==
    [rg EXCEPT !.cls[c].super = super_group_cls,
               !.cls[c].super_name = PLURAL_NAME(rg.cls[super_group_cls].model)]

\* subgroup_class(super_group, model_cls).wrap(_cls): group_class first, then
\* the super-group's model is appended to the model's __supermodels__ (a
\* super-group without _MODEL_CLS raises here), then the two registrations
subgroup_class_wrap(rg, c, super_group, model_cls) ==
    LET g == group_class_wrap(rg, c, model_cls)
    IN  IF g.cls[super_group].model = "None"
        THEN [rg |-> g, exc |-> "AttributeError"]
        ELSE LET s == [g EXCEPT !.supermodels[model_cls] =
                                    Append(@, g.cls[super_group].model)]
                 r == Group_register_subgroup(s, super_group, c)
             IN  IF r.exc # "ok" THEN r
                 ELSE [rg |-> Group_register_super_group(r.rg, c, super_group),
                       exc |-> "ok"]

\* @group_class(model_cls) applied to the class c
DeclareGroup(c, model_cls) ==
    /\ reg' = group_class_wrap(reg, c, model_cls)
    /\ last' = [op |-> "group_class", obj |-> NoneRef, exc |-> "ok", cls |-> c]
    /\ UNCHANGED <<exists, fld, attrs, pk, items, removed, sess, cur>>

\* @subgroup_class(super_group, model_cls) applied to the class c
DeclareSubgroup(c, super_group, model_cls) ==
    /\ Len(reg.supermodels[model_cls]) < MaxSuperModels
    /\ \E r \in {subgroup_class_wrap(reg, c, super_group, model_cls)} :
           /\ reg' = r.rg
           /\ last' = [op |-> "subgroup_class", obj |-> NoneRef, exc |-> r.exc,
                       cls |-> c, super_group |-> super_group]
    /\ UNCHANGED <<exists, fld, attrs, pk, items, removed, sess, cur>>

ClassesNext ==
    \/ \E c \in Classes, m \in ClassModels : DeclareGroup(c, m)
    \/ \E c \in Classes, g \in Classes, m \in ClassModels :
          c # g /\ DeclareSubgroup(c, g, m)

SpecClasses == InitClasses /\ [][ClassesNext]_vars

\* every class in a subgroup map has the owner of the map as its super-group,
\* and no subgroup name occurs twice in a map
SubgroupMapsAgree ==
    \A g \in Classes :
        /\ \A i, j \in 1..Len(reg.cls[g].subgroups) :
              reg.cls[g].subgroups[i][1] = reg.cls[g].subgroups[j][1] => i = j
        /\ \A i \in 1..Len(reg.cls[g].subgroups) :
              reg.cls[reg.cls[g].subgroups[i][2]].super = g

\* a registration that raises leaves every subgroup map as it was
FailedRegistrationKeepsMaps ==
    (last'.op = "subgroup_class" /\ last'.exc = "RuntimeError")
    => \A g \in Classes \ {last'.cls} : reg'.cls[g].subgroups = reg.cls[g].subgroups

\* C25: after any sequence of group_class and subgroup_class declarations,
\* every group class has at most one subgroup class per subgroup name and
\* every class in a group's subgroup map has that group as its single
\* super-group; registering a second subgroup under a name already present
\* raises an error and leaves the existing subgroup map entry unchanged.
C25_SubgroupMapConsistent ==
    []SubgroupMapsAgree /\ [][FailedRegistrationKeepsMaps]_vars

(***************************************************************************)
(* SpecRepoAuto: the in-memory repository of Den, with instances           *)
(* constructed without an explicit pk; they are added, removed and added   *)
(* again, one call after the other, on their repository and on House's.    *)
(***************************************************************************)
RepoAutoNext ==
    \/ \E o \in Inst("Den") : NewDen(o, NoneRef, NoPk)
    \/ \E r \in {"House", "Den"}, o \in Inst("Den") : Add(r, o)
    \/ \E r \in {"House", "Den"}, o \in Inst("Den") : Remove(r, o)

SpecRepoAuto == InitInstances /\ [][RepoAutoNext]_vars

\* C26: after any sequence of add, remove and re-add calls on instances
\* constructed without an explicit pk, every slot i of a model's item list
\* is None or holds an instance whose pk is i, and no two stored instances
\* have the same pk.
C26_SlotsHoldTheirPk ==
    \A m \in Models :
        /\ \A i \in 1..Len(items[m]) :
              items[m][i] = NoneRef \/ pk[items[m][i]] = i - 1
        /\ \A i, j \in 1..Len(items[m]) :
              (i # j /\ items[m][i] # NoneRef /\ items[m][j] # NoneRef)
              => pk[items[m][i]] # pk[items[m][j]]

\* an instance that was removed is added again while another slot is empty
C26_Witness ==
    /\ last.op = "add" /\ last.exc = "ok" /\ last.obj \in removed
    /\ items[ModelOf(last.obj)][pk[last.obj] + 1] = last.obj
    /\ \E i \in 1..Len(items[ModelOf(last.obj)]) :
          items[ModelOf(last.obj)][i] = NoneRef
    /\ \E i \in 1..Len(items[ModelOf(last.obj)]) :
          items[ModelOf(last.obj)][i] \notin {NoneRef, last.obj}

(***************************************************************************)
(* SpecRemoved: shelves are constructed without a pk, added to and removed *)
(* from their in-memory repository; then the caller takes the unrestricted *)
(* view() and calls all_pk(), where() and limit() on it.                   *)
(***************************************************************************)
\* cur.all_pk()
AllPk ==
    /\ cur # NoCur
    /\ \E r \in {all_pk(cur, RepoState)} :
           last' = [op |-> "all_pk", obj |-> NoneRef, exc |-> r.exc,
                    recv |-> cur, pks |-> r.pks]
    /\ UNCHANGED <<exists, fld, attrs, pk, items, removed, sess, cur, reg>>

RemovedNext ==
    \/ /\ cur = NoCur
       /\ \/ \E o \in Graph("Shelf"), l \in Lengths : NewShelf(o, <<>>, l, NoPk)
          \/ \E o \in Graph("Shelf") : Add("Shelf", o)
          \/ \E o \in Graph("Shelf") : Remove("Shelf", o)
    \/ View("Shelf", NonePks)
    \/ AllPk
    \/ Where(<<LengthGe30>>, <<>>)
    \/ \E n \in 0..MaxGraph : Limit(n)

SpecRemoved == InitInstances /\ [][RemovedNext]_vars

\* the instances added and not removed
Survivors(m) == {o \in exists \cap Inst(m) : StoredIn(items, o)}

\* C27: a view created after remove(x) does not hold the removed instance:
\* the unrestricted view() counts the instances added and not removed, and
\* all_pk(), where() and limit() on it do not raise and yield surviving
\* instances only.
C27_ViewAfterRemove ==
    cur # NoCur =>
        /\ count(cur) = Cardinality(Survivors(cur.repo))
        /\ SeqRange(cur.items) \subseteq Survivors(cur.repo)
        /\ last.op \in {"all_pk", "where", "limit"} => last.exc = "ok"
        /\ last.op \in {"where", "limit"} =>
              SeqRange(last.res.items) \subseteq Survivors(cur.repo)
        /\ last.op = "all_pk" =>
              SeqRange(last.pks) \subseteq {pk[o] : o \in Survivors(cur.repo)}

(***************************************************************************)
(* SpecUselist: shelves and kitchens are constructed, the ONE_TO_MANY      *)
(* field Kitchen.shelves is assigned, and the list it holds is changed in  *)
(* place with append and remove.                                           *)
(***************************************************************************)
\* the lists of constructed shelves without repetition
ShelfSeqs ==
    {q \in UNION {[1..n -> exists \cap Graph("Shelf")] : n \in 0..MaxGraph} :
        NoDuplicates(q)}

\* list.remove(x): the first element equal to x (the dataclass __eq__) goes
list_remove(ist, lst, x) ==
    LET hits == {i \in 1..Len(lst) : EqRef(ist, lst[i], x)}
    IN  IF hits = {} THEN [exc |-> "ValueError", list |-> lst]
        ELSE LET at == CHOOSE i \in hits : \A j \in hits : i <= j
             IN  [exc |-> "ok",
                  list |-> [i \in 1..(Len(lst) - 1) |->
                                IF i < at THEN lst[i] ELSE lst[i + 1]]]

\* o.shelves.append(s): the list is changed, no __setattr__ runs
ListAppend(o, s) ==
    /\ o \in exists /\ s \in exists
    /\ Len(fld[o].shelves) < MaxGraph
    /\ fld' = [fld EXCEPT ![o].shelves = Append(@, s)]
    /\ last' = [op |-> "append", obj |-> o, exc |-> "ok"]
    /\ UNCHANGED <<exists, attrs, pk, items, removed, sess, cur, reg>>

\* o.shelves.remove(s)
ListRemove(o, s) ==
    /\ o \in exists /\ s \in exists
    /\ \E r \in {list_remove(InstState, fld[o].shelves, s)} :
           /\ fld' = [fld EXCEPT ![o].shelves = r.list]
           /\ last' = [op |-> "list_remove", obj |-> o, exc |-> r.exc]
    /\ UNCHANGED <<exists, attrs, pk, items, removed, sess, cur, reg>>

UselistNext ==
    \/ \E o \in Graph("Shelf"), l \in Lengths : NewShelf(o, <<>>, l, NoPk)
    \/ \E o \in Graph("Kitchen"), l \in ShelfSeqs : NewKitchen(o, NoneRef, l, NoPk)
    \/ \E o \in Graph("Kitchen"), l \in ShelfSeqs : SetAttr(o, "shelves", l)
    \/ \E o \in Graph("Kitchen"), s \in Graph("Shelf") : ListAppend(o, s)
    \/ \E o \in Graph("Kitchen"), s \in Graph("Shelf") : ListRemove(o, s)

SpecUselist == InitInstances /\ [][UselistNext]_vars

\* C28: for the ONE_TO_MANY field Kitchen.shelves, after any sequence of
\* assignments to the field and in-place appends and removes on the assigned
\* list, a shelf's singular back-reference is a kitchen if and only if the
\* shelf is an element of that kitchen's shelves.
C28_SingularBackrefExact ==
    \A s \in exists \cap Inst("Shelf"), k \in exists \cap Inst("Kitchen") :
        (attrs[s].kitchen.val = k) <=> (s \in SeqRange(fld[k].shelves))

(***************************************************************************)
(* SpecInterleave: callers in different threads add new instances to the   *)
(* same in-memory repository with nothing serializing them.  A thread can  *)
(* be switched between the statements of MemoryRepositoryBase.add, so add  *)
(* is three steps here; sess holds each caller's position in add, the pk  *)
(* it read, and (history) the callers whose add overlapped another's.      *)
(***************************************************************************)
MaxCallers == 2     \* threads calling add

Callers == 1..MaxCallers

\* the new instance caller t adds
ObjOf(t) == <<"Den", t>>

InitInterleave ==
    /\ exists = {}
    /\ fld = [o \in Instances |-> NoFields]
    /\ attrs = [o \in Instances |-> NoAttrs]
    /\ pk = [o \in Instances |-> NoPk]
    /\ items = [m \in Models |-> <<>>]
    /\ removed = {}
    /\ last = NoLast
    /\ sess = [pc |-> [t \in Callers |-> "idle"], read |-> [t \in Callers |-> NoPk],
               raced |-> {}]
    /\ cur = NoCur
    /\ reg = GroupClasses

\* the callers that are between the first and the last statement of add
InAdd == {u \in Callers : sess.pc[u] \in {"read", "assigned"}}

\* self._verify_obj(obj); pk = getattr(obj, "pk")
AddRead(t) ==
    /\ sess.pc[t] = "idle"
    /\ ObjOf(t) \in exists
    /\ verify_obj("Den", ObjOf(t))
    /\ sess' = [sess EXCEPT !.pc[t] = "read", !.read[t] = pk[ObjOf(t)],
                            !.raced = IF InAdd = {} THEN @ ELSE @ \cup InAdd \cup {t}]
    /\ last' = [op |-> "add_read", obj |-> ObjOf(t), exc |-> "ok"]
    /\ UNCHANGED <<exists, fld, attrs, pk, items, removed, cur, reg>>

\* a variant that numbers the slots from one
AddAssignPk_from_one(t) ==
    /\ sess.pc[t] = "read"
    /\ sess.read[t] = NoPk
    /\ pk' = [pk EXCEPT ![ObjOf(t)] = Len(items["Den"]) + 1]
    /\ sess' = [sess EXCEPT !.pc[t] = "assigned"]
    /\ last' = [op |-> "add_assign", obj |-> ObjOf(t), exc |-> "ok"]
    /\ UNCHANGED <<exists, fld, attrs, items, removed, cur, reg>>

\* if pk is None: obj.pk = len(self.get_items())
AddAssignPk(t) ==
    /\ sess.pc[t] = "read"
    /\ sess.read[t] = NoPk
    /\ pk' = [pk EXCEPT ![ObjOf(t)] = Len(items["Den"])]
    /\ sess' = [sess EXCEPT !.pc[t] = "assigned"]
    /\ last' = [op |-> "add_assign", obj |-> ObjOf(t), exc |-> "ok"]
    /\ UNCHANGED <<exists, fld, attrs, items, removed, cur, reg>>

\* self.get_items().append(obj)
AddAppend(t) ==
    /\ sess.pc[t] = "assigned"
    /\ items' = [items EXCEPT !["Den"] = Append(@, ObjOf(t))]
    /\ sess' = [sess EXCEPT !.pc[t] = "done"]
    /\ last' = [op |-> "add", obj |-> ObjOf(t), exc |-> "ok"]
    /\ UNCHANGED <<exists, fld, attrs, pk, removed, cur, reg>>

\* else: self.get_items()[pk] = obj, for an instance that has a pk already
AddStore(t) ==
    /\ sess.pc[t] = "read"
    /\ sess.read[t] # NoPk
    /\ items' = IF sess.read[t] < Len(items["Den"])
                THEN [items EXCEPT !["Den"] = ListSet(@, sess.read[t], ObjOf(t))]
                ELSE items
    /\ sess' = [sess EXCEPT !.pc[t] = "done"]
    /\ last' = [op |-> "add", obj |-> ObjOf(t),
                exc |-> IF sess.read[t] < Len(items["Den"]) THEN "ok" ELSE "IndexError"]
    /\ UNCHANGED <<exists, fld, attrs, pk, removed, cur, reg>>

\* the caller is ready for another add of its instance
AddAgain(t) ==
    /\ sess.pc[t] = "done"
    /\ sess' = [sess EXCEPT !.pc[t] = "idle", !.read[t] = NoPk]
    /\ last' = [op |-> "returned", obj |-> ObjOf(t), exc |-> "ok"]
    /\ UNCHANGED <<exists, fld, attrs, pk, items, removed, cur, reg>>

InterleaveNext ==
    \/ /\ \E o \in {ObjOf(t) : t \in Callers} : NewDen(o, NoneRef, NoPk)
       /\ UNCHANGED sess
    \/ \E t \in Callers : AddRead(t)
    \/ \E t \in Callers : AddAssignPk(t)
    \/ \E t \in Callers : AddAppend(t)
    \/ \E t \in Callers : AddStore(t)
    \/ \E t \in Callers : AddAgain(t)

SpecInterleave == InitInterleave /\ [][InterleaveNext]_vars

\* the callers whose first add of their new instance has returned
Added == {t \in Callers : sess.pc[t] = "done" /\ sess.read[t] = NoPk}

\* those of them no other caller's add overlapped
Serialized == Added \ sess.raced

\* C30 as stated: when the add calls of new instances interleave, every
\* instance whose add has returned is stored in the slot of its pk, and no
\* two of them have the same pk.
C30_InterleavedAddsDistinct ==
    /\ \A t \in Added :
          /\ pk[ObjOf(t)] < Len(items["Den"])
          /\ items["Den"][pk[ObjOf(t)] + 1] = ObjOf(t)
    /\ \A t, u \in Added : t # u => pk[ObjOf(t)] # pk[ObjOf(u)]

\* C30 as amended: when the caller serializes the add calls of new instances
\* (none starts while another is inside add), every instance whose add has
\* returned is stored in the slot of its pk, and no two of them have the
\* same pk.
C30_SerializedAddsDistinct ==
    /\ \A t \in Serialized :
          /\ pk[ObjOf(t)] < Len(items["Den"])
          /\ items["Den"][pk[ObjOf(t)] + 1] = ObjOf(t)
    /\ \A t, u \in Serialized : t # u => pk[ObjOf(t)] # pk[ObjOf(u)]

\* two serialized add calls of new instances have both returned
C30_Witness == Cardinality(Serialized) >= 2

====
